---- MODULE Spec2Model ----
(***************************************************************************)
(* Model of the slapify task agent: the runTask think/act loop             *)
(* (src/src/task/runner.ts), its session store and transcript rebuilder    *)
(* (src/src/task/session.ts), the context compactor and the loop detector. *)
(* Strings are TLA+ strings; JSON.stringify and the other formatting       *)
(* functions build the strings the code builds.                            *)
(***************************************************************************)
EXTENDS Integers, Sequences, FiniteSets, TLC

VARIABLES
  session,            \* the in-memory TaskSession object of the run
  meta,               \* the persisted <id>.json snapshot (saveSessionMeta)
  events,             \* the persisted <id>.jsonl event log (appendEvent)
  messages,           \* the conversation transcript held by runTask
  recentActions,      \* LoopDetector.recentActions
  pc,                 \* position of runTask
  toolCalls,          \* result.toolCalls of the current decision response
  tcIdx,              \* index of the tool call the ACT loop is at
  toolResultContent,  \* toolResultContent of the current batch
  isDone,             \* runTask local isDone
  doneSummary,        \* runTask local doneSummary
  isScheduledRun,     \* options.isScheduledRun
  maxIterations,      \* options.maxIterations
  dispatched,         \* tool calls handed to executor.execute, in order
  decisionCalls,      \* number of generateText decision calls made
  cronTimers,         \* jobs registered with cron.schedule, in order
  resumes,            \* number of runTask calls made with a sessionId
  toolErrors,         \* number of executor calls that threw
  summaryCalls,       \* outcomes of the summarizing generateText calls
  recorded,           \* every signature the detector harness has pushed
  script,             \* input script of the detector / compactor harness
  emitted,            \* notifications passed to onEvent (the types modelled)
  humanInput,         \* answers returned by onHumanInput, in order
  subRuns,            \* the runs started by cron fires, in order of start
  activeSession,      \* cli.ts activeSession: 0 is the run the caller
                      \* started, i > 0 is subRuns[i]
  storeFaults,        \* number of session-store writes that threw
  storeFile,          \* text of the file the store harness writes and reads
  finishReason        \* result.finishReason of the last decision response

vars == <<session, meta, events, messages, recentActions, pc, toolCalls,
          tcIdx, toolResultContent, isDone, doneSummary, isScheduledRun,
          maxIterations, dispatched, decisionCalls, cronTimers, resumes,
          toolErrors, summaryCalls, recorded, script, emitted, humanInput,
          subRuns, activeSession, storeFaults, storeFile,
          finishReason>>

(***************************************************************************)
(* Program constants                                                       *)
(***************************************************************************)
MAX_MESSAGES_BEFORE_COMPACT == 60
COMPACT_KEEP_RECENT == 20
DEFAULT_MAX_ITERATIONS == 400
WINDOW == 20
THRESHOLD == 5

LOOP_EXEMPT_TOOLS ==
  {"get_page_state", "screenshot", "wait", "scroll", "recall",
   "list_memories", "list_credential_profiles", "go_back", "reload",
   "fetch_url", "solve_captcha", "status_update", "ask_user",
   "save_credentials"}

(***************************************************************************)
(* Bounds of the model                                                     *)
(***************************************************************************)
MaxIter == 2          \* largest maxIterations option a run is started with
MaxResumes == 1       \* runTask calls with a sessionId
MaxToolErrors == 1    \* executor calls that throw, per behaviour
MaxFree == 6          \* free recordings of the detector harness
MaxCyclic == 21       \* cyclic recordings of the detector harness
MaxPeriod == 5        \* largest period of a cyclic detector input
MaxTurns == 63        \* longest transcript given to the compactor harness
MaxFires == 2         \* cron fires followed after the hand-off
MaxSubIter == 1       \* iterations followed in each sub-run
MaxStoreFaults == 1   \* store writes that start a fault, per behaviour
PlanCeiling == 3      \* smallest ceiling given to the planned run
MaxAppends == 4       \* events appended by the log harness
MaxClock == 2         \* largest timestamp of an appended event
MaxEnded == 6         \* iterations of the run a resume by id finds
MaxStart == 3         \* largest iteration counter a resumed run starts with

(***************************************************************************)
(* Generic helpers                                                         *)
(***************************************************************************)
Min(a, b) == IF a < b THEN a ELSE b
Max(a, b) == IF a > b THEN a ELSE b

\* Array.prototype.slice(start, end) on a sequence, with JavaScript's
\* treatment of negative indices (0-based, end exclusive).
JsIndex(i, n) == IF i < 0 THEN Max(n + i, 0) ELSE Min(i, n)
Slice(s, start, end) ==
  LET a == JsIndex(start, Len(s))
      b == JsIndex(end, Len(s))
  IN  IF b <= a THEN <<>> ELSE SubSeq(s, a + 1, b)
SliceFrom(s, start) == Slice(s, start, Len(s))

\* A string in double quotes, as JSON.stringify writes a string value.
Quote(s) == "\"" \o s \o "\""

\* A JavaScript object is an ordered list of <<key, kind, raw>> entries:
\* kind "s" is a string value, kind "lit" a literal (true, false, a number).
StrE(k, v) == <<k, "s", v>>
LitE(k, v) == <<k, "lit", v>>
JsonValue(e) == IF e[2] = "s" THEN Quote(e[3]) ELSE e[3]
RECURSIVE JoinEntries(_)
JoinEntries(o) ==
  IF Len(o) = 0 THEN ""
  ELSE Quote(o[1][1]) \o ":" \o JsonValue(o[1]) \o
       (IF Len(o) = 1 THEN "" ELSE "," \o JoinEntries(Tail(o)))
JSONstringify(o) == "{" \o JoinEntries(o) \o "}"

ObjHas(o, k) == \E i \in 1..Len(o) : o[i][1] = k
ObjGet(o, k) == o[CHOOSE i \in 1..Len(o) : o[i][1] = k][3]

(***************************************************************************)
(* Session store (session.ts)                                              *)
(***************************************************************************)
\* createSession: a fresh session record; an unset finalSummary is <<>>.
createSession(goal) ==
  [id |-> "task-1", goal |-> goal, status |-> "running", iteration |-> 0,
   memory |-> <<>>, scheduledJobs |-> <<>>, finalSummary |-> <<>>]

\* saveSessionMeta writes the whole session object to <id>.json.
saveSessionMeta(s) == s

\* appendEvent appends one line to <id>.jsonl.
appendEvent(log, e) == Append(log, e)

\* updateSessionStatus sets the status (the caller saves the result).
updateSessionStatus(s, status) == [s EXCEPT !.status = status]

(***************************************************************************)
(* Transcript rebuilder (session.ts, rebuildMessages)                      *)
(***************************************************************************)
RebuildContent(event) ==
  (IF event.text # "" THEN <<[type |-> "text", text |-> event.text]>>
   ELSE <<>>) \o
  [i \in 1..Len(event.toolCalls) |->
     [type |-> "tool-call",
      toolCallId |-> event.toolCalls[i].toolCallId,
      toolName |-> event.toolCalls[i].toolName,
      args |-> event.toolCalls[i].args]]

RebuildResultContent(event) ==
  [type |-> "tool-result",
   toolCallId |-> IF "toolCallId" \in DOMAIN event /\ event.toolCallId # ""
                  THEN event.toolCallId ELSE "",
   toolName |-> event.toolName,
   result |-> IF event.type = "tool_error"
              THEN "ERROR: " \o event.error
              ELSE JSONstringify(event.result)]

RebuildStep(msgs, event) ==
  IF event.type = "session_start"
  THEN Append(msgs, [role |-> "user", content |-> event.goal])
  ELSE IF event.type = "llm_response"
  THEN IF Len(RebuildContent(event)) > 0
       THEN Append(msgs, [role |-> "assistant",
                          content |-> RebuildContent(event)])
       ELSE msgs
  ELSE IF event.type \in {"tool_call", "tool_error"}
  THEN IF Len(msgs) > 0 /\ msgs[Len(msgs)].role = "tool"
       THEN [msgs EXCEPT ![Len(msgs)].content =
                           Append(@, RebuildResultContent(event))]
       ELSE Append(msgs, [role |-> "tool",
                          content |-> <<RebuildResultContent(event)>>])
  ELSE msgs

RECURSIVE RebuildFold(_, _)
RebuildFold(msgs, evs) ==
  IF Len(evs) = 0 THEN msgs
  ELSE RebuildFold(RebuildStep(msgs, Head(evs)), Tail(evs))

rebuildMessages(evs) == RebuildFold(<<>>, evs)

(***************************************************************************)
(* Context compactor (runner.ts, compactMessages)                          *)
(***************************************************************************)
\* compactMessages keeping one turn fewer than COMPACT_KEEP_RECENT.
compactMessagesKeepsLess(msgs, summary) ==
  LET toSummarize == Slice(msgs, 0, Len(msgs) - COMPACT_KEEP_RECENT)
      recent == SliceFrom(msgs, Len(msgs) - COMPACT_KEEP_RECENT + 1)
  IN  IF Len(toSummarize) = 0
      THEN [messages |-> msgs, appended |-> <<>>]
      ELSE IF Len(summary) = 1
      THEN [messages |->
              <<[role |-> "user",
                 content |-> "[Session history summary]\n" \o summary[1]]>>
              \o recent,
            appended |->
              <<[type |-> "context_compacted",
                 fromMessages |-> Len(msgs),
                 toMessages |-> 1 + Len(recent)]>>]
      ELSE [messages |-> recent, appended |-> <<>>]

\* compactMessages returning the whole transcript when the summary fails.
compactMessagesKeepsAll(msgs, summary) ==
  LET toSummarize == Slice(msgs, 0, Len(msgs) - COMPACT_KEEP_RECENT)
      recent == SliceFrom(msgs, Len(msgs) - COMPACT_KEEP_RECENT)
  IN  IF Len(toSummarize) = 0
      THEN [messages |-> msgs, appended |-> <<>>]
      ELSE IF Len(summary) = 1
      THEN [messages |->
              <<[role |-> "user",
                 content |-> "[Session history summary]\n" \o summary[1]]>>
              \o recent,
            appended |->
              <<[type |-> "context_compacted",
                 fromMessages |-> Len(msgs),
                 toMessages |-> 1 + Len(recent)]>>]
      ELSE [messages |-> msgs, appended |-> <<>>]

\* summary is <<text>> when the summarizing generateText call returns and
\* <<>> when it throws.  The result carries the new transcript and the
\* events appended.
compactMessages(msgs, summary) ==
  LET toSummarize == Slice(msgs, 0, Len(msgs) - COMPACT_KEEP_RECENT)
      recent == SliceFrom(msgs, Len(msgs) - COMPACT_KEEP_RECENT)
  IN  IF Len(toSummarize) = 0
      THEN [messages |-> msgs, appended |-> <<>>]
      ELSE IF Len(summary) = 1
      THEN [messages |->
              <<[role |-> "user",
                 content |-> "[Session history summary]\n" \o summary[1]]>>
              \o recent,
            appended |->
              <<[type |-> "context_compacted",
                 fromMessages |-> Len(msgs),
                 toMessages |-> 1 + Len(recent)]>>]
      ELSE [messages |-> recent, appended |-> <<>>]

(***************************************************************************)
(* Loop detector (runner.ts, class LoopDetector)                           *)
(***************************************************************************)
LoopKey(toolName, args) == toolName \o ":" \o JSONstringify(args)

record(recent, toolName, args) ==
  IF toolName \in LOOP_EXEMPT_TOOLS THEN recent
  ELSE LET pushed == Append(recent, LoopKey(toolName, args))
       IN  IF Len(pushed) > WINDOW THEN Tail(pushed) ELSE pushed

\* The counts map that isLooping builds over recentActions.
LoopCounts(recent) ==
  [k \in {recent[i] : i \in 1..Len(recent)} |->
     Cardinality({i \in 1..Len(recent) : recent[i] = k})]

\* isLooping with c > THRESHOLD in place of c >= THRESHOLD.
isLoopingStrict(recent) ==
  IF Len(recent) < WINDOW THEN FALSE
  ELSE \E k \in DOMAIN LoopCounts(recent) :
         LoopCounts(recent)[k] > THRESHOLD

\* isLooping without the early return on a window that is not full.
isLoopingNoWarmup(recent) ==
  \E k \in DOMAIN LoopCounts(recent) : LoopCounts(recent)[k] >= THRESHOLD

isLooping(recent) ==
  IF Len(recent) < WINDOW THEN FALSE
  ELSE \E k \in DOMAIN LoopCounts(recent) :
         LoopCounts(recent)[k] >= THRESHOLD

(***************************************************************************)
(* Inputs of a run: the goal, the decision oracle, the human, the tools    *)
(***************************************************************************)
Goal == "check the inbox"
ValidCrons == {"*/5 * * * *"}
Answers == {"1234", "me@a.example hunter2"}
\* looksLikeCreds: of the answers above, the one that holds an e-mail
\* address and a space.
looksLikeCreds(answer) == answer \in {"me@a.example hunter2"}
\* The replies to the "save these credentials?" prompt.
SaveAsReplies == {"", "mail"}
Summaries == {"summary of the old turns"}
KeyOrder == <<"k1", "thread_url">>

Call(name, args) == [toolName |-> name, args |-> args]
Click(ref) == Call("click", <<StrE("ref", ref)>>)
Navigate(url) == Call("navigate", <<StrE("url", url)>>)
Remember(k, v) == Call("remember", <<StrE("key", k), StrE("value", v)>>)
AskUser(q) == Call("ask_user", <<StrE("question", q)>>)
Schedule(c, t) == Call("schedule", <<StrE("cron", c), StrE("task_description", t)>>)
SleepUntil(u) == Call("sleep_until", <<StrE("until", u)>>)
Done(summary) == Call("done", <<StrE("summary", summary)>>)

\* The batches of proposed actions the oracle chooses from.
Batches ==
  { <<Remember("k1", "v1")>>,
    <<Navigate("https://a.example")>>,
    <<AskUser("code?")>>,
    <<Schedule("*/5 * * * *", "check again")>>,
    <<Schedule("every day", "check again")>>,
    <<Schedule("*/5 * * * *", "check again"),
      Schedule("*/5 * * * *", "check the outbox"), Done("watching")>>,
    <<SleepUntil("5s")>>,
    <<Done("all done")>>,
    <<Click("e1"), Done("all done"), Click("e2")>>,
    [i \in 1..WINDOW |-> Click("e1")] }

ToolCallId(iteration, i) == "call-" \o ToString(iteration) \o "-" \o ToString(i)

WithIds(batch, iteration) ==
  [i \in 1..Len(batch) |->
     [toolCallId |-> ToolCallId(iteration, i),
      toolName |-> batch[i].toolName,
      args |-> batch[i].args]]

\* The decision responses generateText may return in the given iteration.
Responses(iteration) ==
  { [text |-> "", toolCalls |-> WithIds(b, iteration),
     finishReason |-> "tool-calls"] : b \in Batches }
  \cup
  { [text |-> t, toolCalls |-> <<>>, finishReason |-> f] :
      t \in {"", "thinking"}, f \in {"stop", "length"} }

Merge(m, n) ==
  [k \in DOMAIN m \cup DOMAIN n |-> IF k \in DOMAIN n THEN n[k] ELSE m[k]]

\* The memory maps a run may inherit (options.inheritedMemory).
InheritedMemories(sched) ==
  IF sched THEN {<<>>, [k \in {"thread_url"} |-> "https://t.example"]}
  ELSE {<<>>}

(***************************************************************************)
(* runTask: session set-up (runner.ts 1169-1289)                           *)
(***************************************************************************)
RECURSIVE MemLinesFrom(_, _)
MemLinesFrom(memory, keys) ==
  IF Len(keys) = 0 THEN ""
  ELSE LET k == Head(keys)
           rest == MemLinesFrom(memory, Tail(keys))
       IN  IF k \in DOMAIN memory
           THEN "- " \o k \o ": " \o memory[k] \o
                (IF rest = "" THEN "" ELSE "\n" \o rest)
           ELSE rest
MemLines(memory) == MemLinesFrom(memory, KeyOrder)

MemNote(memory, sched) ==
  IF sched
  THEN "[SCHEDULED CHECK-IN - you are a recurring monitoring run]\n" \o
       "Context from parent session:\n" \o MemLines(memory) \o
       (IF "thread_url" \in DOMAIN memory
        THEN "\nIMPORTANT: Navigate directly to " \o memory["thread_url"]
        ELSE "")
  ELSE "[Memory from previous session]\n" \o MemLines(memory)

\* Initial memory injection: messages.unshift of the memory note.
InjectMemory(msgs, memory, sched) ==
  IF DOMAIN memory # {}
  THEN <<[role |-> "user", content |-> MemNote(memory, sched)]>> \o msgs
  ELSE IF sched
  THEN <<[role |-> "user",
          content |-> "[SCHEDULED CHECK-IN] You are a recurring monitoring run."]>>
       \o msgs
  ELSE msgs

FreshSession(inherited) ==
  [createSession(Goal) EXCEPT !.memory = Merge(@, inherited)]

\* runTask called without a sessionId, up to the while loop.
Init ==
  \E sched \in BOOLEAN, maxIt \in 1..MaxIter :
    \E inherited \in InheritedMemories(sched) :
      /\ session = FreshSession(inherited)
      /\ meta = saveSessionMeta(FreshSession(inherited))
      /\ events = <<[type |-> "session_start", goal |-> Goal]>>
      /\ messages = InjectMemory(<<[role |-> "user", content |-> Goal]>>,
                                 FreshSession(inherited).memory, sched)
      /\ recentActions = <<>>
      /\ pc = "loop"
      /\ toolCalls = <<>>
      /\ tcIdx = 0
      /\ toolResultContent = <<>>
      /\ isDone = FALSE
      /\ doneSummary = ""
      /\ isScheduledRun = sched
      /\ maxIterations = maxIt
      /\ dispatched = <<>>
      /\ decisionCalls = 0
      /\ cronTimers = <<>>
      /\ resumes = 0
      /\ toolErrors = 0
      /\ summaryCalls = <<>>
      /\ recorded = <<>>
      /\ script = [mode |-> "run"]
      /\ emitted = <<>>
      /\ humanInput = <<>>
      /\ subRuns = <<>>
      /\ activeSession = 0
      /\ storeFaults = 0
      /\ storeFile = <<>>
      /\ finishReason = ""

cliVars == <<humanInput, subRuns, activeSession>>
storeVars == <<storeFaults, storeFile>>
harnessVars == <<recorded, script, storeVars, finishReason, emitted, cliVars>>
quietVars == <<summaryCalls, recorded, script, storeVars, finishReason,
               emitted, cliVars>>
\* for the steps that emit a notification
silentVars == <<summaryCalls, recorded, script, storeVars, finishReason,
                cliVars>>

\* Resume that starts the iteration counter again from 0.
ResumeResets ==
  /\ pc \in {"returned", "threw"}
  /\ resumes < MaxResumes
  /\ resumes' = resumes + 1
  /\ session' = [meta EXCEPT !.status = "running", !.iteration = 0]
  /\ meta' = saveSessionMeta(session')
  /\ messages' = InjectMemory(rebuildMessages(events), meta.memory, FALSE)
  /\ recentActions' = <<>>
  /\ isDone' = FALSE
  /\ doneSummary' = ""
  /\ isScheduledRun' = FALSE
  /\ maxIterations' \in 1..MaxIter
  /\ pc' = "loop"
  /\ activeSession' = 0
  /\ UNCHANGED <<events, toolCalls, tcIdx, toolResultContent, dispatched,
                 decisionCalls, cronTimers, toolErrors, summaryCalls, recorded,
                 script, storeVars, finishReason, emitted, humanInput,
                 subRuns>>

\* runTask called with the id of the persisted session (resume branch).
Resume ==
  /\ pc \in {"returned", "threw"}
  /\ resumes < MaxResumes
  /\ resumes' = resumes + 1
  /\ session' = [meta EXCEPT !.status = "running"]
  /\ meta' = saveSessionMeta(session')
  /\ messages' = InjectMemory(rebuildMessages(events), meta.memory, FALSE)
  /\ recentActions' = <<>>
  /\ isDone' = FALSE
  /\ doneSummary' = ""
  /\ isScheduledRun' = FALSE
  /\ maxIterations' \in 1..MaxIter
  /\ pc' = "loop"
  /\ activeSession' = 0
  /\ UNCHANGED <<events, toolCalls, tcIdx, toolResultContent, dispatched,
                 decisionCalls, cronTimers, toolErrors, summaryCalls, recorded,
                 script, storeVars, finishReason, emitted, humanInput,
                 subRuns>>

(***************************************************************************)
(* runTask: the while loop up to the decision call (runner.ts 1295-1377)   *)
(***************************************************************************)
\* IterationStart whose guard leaves out the ceiling.
IterationStartNoCeiling ==
  /\ pc = "loop"
  /\ ~isDone
  /\ session' = [session EXCEPT !.iteration = @ + 1]
  /\ meta' = saveSessionMeta(session')
  /\ events' = appendEvent(events, [type |-> "iteration_start",
                                    iteration |-> session'.iteration])
  /\ pc' = "compact"
  /\ activeSession' = 0
  /\ UNCHANGED <<messages, recentActions, toolCalls, tcIdx, toolResultContent,
                 isDone, doneSummary, isScheduledRun, maxIterations,
                 dispatched, decisionCalls, cronTimers, resumes, toolErrors,
                 summaryCalls, recorded, script, storeVars, finishReason,
                 emitted, humanInput, subRuns>>

IterationStart ==
  /\ pc = "loop"
  /\ ~isDone /\ session.iteration < maxIterations
  /\ session' = [session EXCEPT !.iteration = @ + 1]
  /\ meta' = saveSessionMeta(session')
  /\ events' = appendEvent(events, [type |-> "iteration_start",
                                    iteration |-> session'.iteration])
  /\ pc' = "compact"
  /\ activeSession' = 0
  /\ UNCHANGED <<messages, recentActions, toolCalls, tcIdx, toolResultContent,
                 isDone, doneSummary, isScheduledRun, maxIterations,
                 dispatched, decisionCalls, cronTimers, resumes, toolErrors,
                 summaryCalls, recorded, script, storeVars, finishReason,
                 emitted, humanInput, subRuns>>

\* Compact that lets a transcript of one turn more than the ceiling pass.
CompactLate ==
  /\ pc = "compact"
  /\ IF Len(messages) > MAX_MESSAGES_BEFORE_COMPACT + 1
     THEN \E summary \in {<<s>> : s \in Summaries} \cup {<<>>} :
            /\ messages' = compactMessages(messages, summary).messages
            /\ events' = events \o compactMessages(messages, summary).appended
            /\ summaryCalls' = Append(summaryCalls, summary)
     ELSE UNCHANGED <<messages, events, summaryCalls>>
  /\ pc' = "think"
  /\ UNCHANGED <<session, meta, recentActions, toolCalls, tcIdx,
                 toolResultContent, isDone, doneSummary, isScheduledRun,
                 maxIterations, dispatched, decisionCalls, cronTimers,
                 resumes, toolErrors, harnessVars>>

\* Compact context if it's getting large; summary = <<>> is a failed call.
Compact ==
  /\ pc = "compact"
  /\ IF Len(messages) > MAX_MESSAGES_BEFORE_COMPACT
     THEN \E summary \in {<<s>> : s \in Summaries} \cup {<<>>} :
            /\ messages' = compactMessages(messages, summary).messages
            /\ events' = events \o compactMessages(messages, summary).appended
            /\ summaryCalls' = Append(summaryCalls, summary)
     ELSE UNCHANGED <<messages, events, summaryCalls>>
  /\ pc' = "think"
  /\ UNCHANGED <<session, meta, recentActions, toolCalls, tcIdx,
                 toolResultContent, isDone, doneSummary, isScheduledRun,
                 maxIterations, dispatched, decisionCalls, cronTimers,
                 resumes, toolErrors, harnessVars>>

AssistantContent(r) ==
  (IF r.text # "" THEN <<[type |-> "text", text |-> r.text]>> ELSE <<>>) \o
  [i \in 1..Len(r.toolCalls) |->
     [type |-> "tool-call",
      toolCallId |-> r.toolCalls[i].toolCallId,
      toolName |-> r.toolCalls[i].toolName,
      args |-> r.toolCalls[i].args]]

\* THINK: the decision call returns one of the responses rs.
Decide(rs) ==
  /\ pc = "think"
  /\ \E r \in rs :
       /\ events' = appendEvent(events, [type |-> "llm_response",
                                         text |-> r.text,
                                         toolCalls |-> r.toolCalls])
       /\ messages' = IF Len(AssistantContent(r)) > 0
                      THEN Append(messages, [role |-> "assistant",
                                             content |-> AssistantContent(r)])
                      ELSE messages
       /\ toolCalls' = r.toolCalls
       /\ finishReason' = r.finishReason
       /\ toolResultContent' = <<>>
       /\ IF Len(r.toolCalls) = 0
          THEN /\ tcIdx' = 0
               /\ IF r.finishReason = "stop"
                  THEN /\ doneSummary' = (IF r.text # "" THEN r.text
                                          ELSE "Task complete.")
                       /\ isDone' = TRUE
                  ELSE UNCHANGED <<doneSummary, isDone>>
               /\ pc' = "loop"
          ELSE /\ tcIdx' = 1
               /\ pc' = "act"
               /\ UNCHANGED <<doneSummary, isDone>>
  /\ decisionCalls' = decisionCalls + 1
  /\ UNCHANGED <<session, meta, recentActions, isScheduledRun,
                 maxIterations, dispatched, cronTimers, resumes,
                 toolErrors, summaryCalls, recorded, script, storeVars,
                 emitted, cliVars>>

\* Think that takes every response without proposed actions for a natural
\* stop.
ThinkStopsOnAnyReason ==
  /\ pc = "think"
  /\ \E r \in Responses(session.iteration) :
       /\ events' = appendEvent(events, [type |-> "llm_response",
                                         text |-> r.text,
                                         toolCalls |-> r.toolCalls])
       /\ messages' = IF Len(AssistantContent(r)) > 0
                      THEN Append(messages, [role |-> "assistant",
                                             content |-> AssistantContent(r)])
                      ELSE messages
       /\ toolCalls' = r.toolCalls
       /\ finishReason' = r.finishReason
       /\ toolResultContent' = <<>>
       /\ IF Len(r.toolCalls) = 0
          THEN /\ tcIdx' = 0
               /\ IF r.finishReason # ""
                  THEN /\ doneSummary' = (IF r.text # "" THEN r.text
                                          ELSE "Task complete.")
                       /\ isDone' = TRUE
                  ELSE UNCHANGED <<doneSummary, isDone>>
               /\ pc' = "loop"
          ELSE /\ tcIdx' = 1
               /\ pc' = "act"
               /\ UNCHANGED <<doneSummary, isDone>>
  /\ decisionCalls' = decisionCalls + 1
  /\ UNCHANGED <<session, meta, recentActions, isScheduledRun,
                 maxIterations, dispatched, cronTimers, resumes,
                 toolErrors, summaryCalls, recorded, script, storeVars,
                 emitted, cliVars>>

\* THINK with the responses the oracle may give in this iteration.
Think == Decide(Responses(session.iteration))

\* THINK: the decision call throws; the catch block of runTask runs.
ThinkThrows ==
  /\ pc = "think"
  /\ decisionCalls' = decisionCalls + 1
  /\ session' = [updateSessionStatus(session, "failed")
                   EXCEPT !.finalSummary = <<"Error: oracle unavailable">>]
  /\ meta' = saveSessionMeta(session')
  /\ emitted' = Append(emitted, [type |-> "error",
                                  error |-> "oracle unavailable"])
  /\ pc' = "threw"
  /\ UNCHANGED <<events, messages, recentActions, toolCalls, tcIdx,
                 toolResultContent, isDone, doneSummary, isScheduledRun,
                 maxIterations, dispatched, cronTimers, resumes,
                 toolErrors, silentVars>>

(***************************************************************************)
(* Action Executor (runner.ts, ToolExecutor.execute)                       *)
(***************************************************************************)
\* What a call of execute did: the value returned or the error thrown, the
\* session object after it, whether it was saved, the events appended and
\* the notifications emitted.
ExecOkEmit(result, s, saved, appended, notes) ==
  [thrown |-> FALSE, error |-> "", result |-> result, session |-> s,
   saved |-> saved, appended |-> appended, emitted |-> notes]
ExecOk(result, s, saved, appended) ==
  ExecOkEmit(result, s, saved, appended, <<>>)
ExecThrow(msg, s) ==
  [thrown |-> TRUE, error |-> msg, result |-> <<>>, session |-> s,
   saved |-> FALSE, appended |-> <<>>, emitted |-> <<>>]

\* executeSchedule without the check of the scheduled-sub-run flag.
executeScheduleUnguarded(s, sched, args) ==
  LET cronExpr == ObjGet(args, "cron")
      taskDesc == ObjGet(args, "task_description")
  IN  IF cronExpr \notin ValidCrons
      THEN ExecOk(<<LitE("ok", "false"),
                    StrE("error", "Invalid cron expression: " \o cronExpr)>>,
                  s, FALSE, <<>>)
      ELSE ExecOkEmit(
             <<LitE("ok", "true"),
               StrE("message", "Task scheduled: '" \o taskDesc \o
                               "' with cron '" \o cronExpr \o
                               "'. The process will stay alive and re-run at each interval.")>>,
             [s EXCEPT !.scheduledJobs =
                Append(@, [id |-> "job", cron |-> cronExpr,
                           taskDescription |-> taskDesc])],
             TRUE,
             <<[type |-> "scheduled", cron |-> cronExpr, task |-> taskDesc]>>,
             <<[type |-> "scheduled", cron |-> cronExpr, task |-> taskDesc]>>)

\* executeSchedule without the call of cron.validate.
executeScheduleUnvalidated(s, sched, args) ==
  LET cronExpr == ObjGet(args, "cron")
      taskDesc == ObjGet(args, "task_description")
  IN  IF sched
      THEN ExecOk(<<LitE("ok", "false"),
                    StrE("error", "You are already running as a scheduled sub-task. Do NOT call schedule() again")>>,
                  s, FALSE, <<>>)
      ELSE ExecOkEmit(
             <<LitE("ok", "true"),
               StrE("message", "Task scheduled: '" \o taskDesc \o
                               "' with cron '" \o cronExpr \o
                               "'. The process will stay alive and re-run at each interval.")>>,
             [s EXCEPT !.scheduledJobs =
                Append(@, [id |-> "job", cron |-> cronExpr,
                           taskDescription |-> taskDesc])],
             TRUE,
             <<[type |-> "scheduled", cron |-> cronExpr, task |-> taskDesc]>>,
             <<[type |-> "scheduled", cron |-> cronExpr, task |-> taskDesc]>>)

\* executeSchedule that records the job before it looks at the
\* scheduled-sub-run flag.
executeScheduleGuardAfter(s, sched, args) ==
  LET cronExpr == ObjGet(args, "cron")
      taskDesc == ObjGet(args, "task_description")
      recorded_ == [s EXCEPT !.scheduledJobs =
                      Append(@, [id |-> "job", cron |-> cronExpr,
                                 taskDescription |-> taskDesc])]
  IN  IF cronExpr \notin ValidCrons
      THEN ExecOk(<<LitE("ok", "false"),
                    StrE("error", "Invalid cron expression: " \o cronExpr)>>,
                  s, FALSE, <<>>)
      ELSE IF sched
      THEN ExecOk(<<LitE("ok", "false"),
                    StrE("error", "You are already running as a scheduled sub-task. Do NOT call schedule() again")>>,
                  recorded_, TRUE, <<>>)
      ELSE ExecOkEmit(
             <<LitE("ok", "true"),
               StrE("message", "Task scheduled: '" \o taskDesc \o
                               "' with cron '" \o cronExpr \o
                               "'. The process will stay alive and re-run at each interval.")>>,
             recorded_,
             TRUE,
             <<[type |-> "scheduled", cron |-> cronExpr, task |-> taskDesc]>>,
             <<[type |-> "scheduled", cron |-> cronExpr, task |-> taskDesc]>>)

\* case "schedule"
executeSchedule(s, sched, args) ==
  LET cronExpr == ObjGet(args, "cron")
      taskDesc == ObjGet(args, "task_description")
  IN  IF sched
      THEN ExecOk(<<LitE("ok", "false"),
                    StrE("error", "You are already running as a scheduled sub-task. Do NOT call schedule() again")>>,
                  s, FALSE, <<>>)
      ELSE IF cronExpr \notin ValidCrons
      THEN ExecOk(<<LitE("ok", "false"),
                    StrE("error", "Invalid cron expression: " \o cronExpr)>>,
                  s, FALSE, <<>>)
      ELSE ExecOkEmit(
             <<LitE("ok", "true"),
               StrE("message", "Task scheduled: '" \o taskDesc \o
                               "' with cron '" \o cronExpr \o
                               "'. The process will stay alive and re-run at each interval.")>>,
             [s EXCEPT !.scheduledJobs =
                Append(@, [id |-> "job", cron |-> cronExpr,
                           taskDescription |-> taskDesc])],
             TRUE,
             <<[type |-> "scheduled", cron |-> cronExpr, task |-> taskDesc]>>,
             <<[type |-> "scheduled", cron |-> cronExpr, task |-> taskDesc]>>)

\* executeRemember that appends no memory_update event.
executeRememberUnlogged(s, args) ==
  LET key == ObjGet(args, "key")
      value == ObjGet(args, "value")
  IN  ExecOk(<<LitE("ok", "true"), StrE("stored", key)>>,
             [s EXCEPT !.memory = Merge(@, [k \in {key} |-> value])],
             TRUE,
             <<>>)

\* case "remember"
executeRemember(s, args) ==
  LET key == ObjGet(args, "key")
      value == ObjGet(args, "value")
  IN  ExecOk(<<LitE("ok", "true"), StrE("stored", key)>>,
             [s EXCEPT !.memory = Merge(@, [k \in {key} |-> value])],
             TRUE,
             <<[type |-> "memory_update", key |-> key, value |-> value]>>)

\* The tools that return without waiting for the human or the clock;
\* fails says that the browser call of navigate / click throws.
execute(s, sched, toolName, args, fails) ==
  CASE toolName = "navigate" ->
         IF fails THEN ExecThrow("Navigation failed", s)
         ELSE ExecOk(<<LitE("ok", "true"), StrE("url", ObjGet(args, "url"))>>,
                     s, FALSE, <<>>)
    [] toolName = "click" ->
         IF fails THEN ExecThrow("Element not found", s)
         ELSE ExecOk(<<LitE("ok", "true"),
                       StrE("clicked", ObjGet(args, "ref"))>>,
                     s, FALSE, <<>>)
    [] toolName = "remember" -> executeRemember(s, args)
    [] toolName = "schedule" -> executeSchedule(s, sched, args)
    [] toolName = "done" -> ExecOk(<<LitE("ok", "true")>>, s, FALSE, <<>>)
    [] OTHER ->
         ExecOk(<<LitE("ok", "false"),
                  StrE("error", "Unknown tool: " \o toolName)>>,
                s, FALSE, <<>>)

MayThrow == {"navigate", "click"}

(***************************************************************************)
(* runTask: ACT (runner.ts 1379-1490)                                      *)
(***************************************************************************)
ToolResult(tc, result) ==
  [type |-> "tool-result", toolCallId |-> tc.toolCallId,
   toolName |-> tc.toolName, result |-> result]

LoopDetectedResult ==
  JSONstringify(<<LitE("ok", "false"),
                  StrE("error", "Loop detected: you have been repeating the same actions. Change your approach or call done().")>>)

\* ContinueBatch that puts the newest result in front of the earlier ones.
ContinueBatchNewestFirst(trc, stop) ==
  /\ toolResultContent' = (IF Len(trc) > 0
                           THEN <<trc[Len(trc)]>> \o SubSeq(trc, 1, Len(trc) - 1)
                           ELSE trc)
  /\ IF stop \/ tcIdx = Len(toolCalls)
     THEN /\ messages' = IF Len(trc) > 0
                         THEN Append(messages, [role |-> "tool",
                                                content |-> trc])
                         ELSE messages
          /\ tcIdx' = tcIdx
          /\ pc' = "loop"
     ELSE /\ messages' = messages
          /\ tcIdx' = tcIdx + 1
          /\ pc' = "act"

\* The end of one pass of the for loop over result.toolCalls: trc is the
\* new toolResultContent, stop is true on break.
ContinueBatch(trc, stop) ==
  /\ toolResultContent' = trc
  /\ IF stop \/ tcIdx = Len(toolCalls)
     THEN /\ messages' = IF Len(trc) > 0
                         THEN Append(messages, [role |-> "tool",
                                                content |-> trc])
                         ELSE messages
          /\ tcIdx' = tcIdx
          /\ pc' = "loop"
     ELSE /\ messages' = messages
          /\ tcIdx' = tcIdx + 1
          /\ pc' = "act"

\* ActDone that goes on with the batch (continue in place of break).
ActDoneContinues ==
  /\ pc = "act"
  /\ toolCalls[tcIdx].toolName = "done"
  /\ LET tc == toolCalls[tcIdx] IN
       /\ doneSummary' = (IF ObjHas(tc.args, "summary")
                             /\ ObjGet(tc.args, "summary") # ""
                          THEN ObjGet(tc.args, "summary")
                          ELSE "Task complete.")
       /\ isDone' = TRUE
       /\ events' = appendEvent(events,
                      [type |-> "tool_call", toolName |-> tc.toolName,
                       args |-> tc.args, result |-> <<LitE("ok", "true")>>])
       /\ ContinueBatch(
            Append(toolResultContent,
                   ToolResult(tc, JSONstringify(<<LitE("ok", "true")>>))),
            FALSE)
  /\ UNCHANGED <<session, meta, recentActions, toolCalls, isScheduledRun,
                 maxIterations, dispatched, decisionCalls, cronTimers,
                 resumes, toolErrors, quietVars>>

\* The completion sentinel.
ActDone ==
  /\ pc = "act"
  /\ toolCalls[tcIdx].toolName = "done"
  /\ LET tc == toolCalls[tcIdx] IN
       /\ doneSummary' = (IF ObjHas(tc.args, "summary")
                             /\ ObjGet(tc.args, "summary") # ""
                          THEN ObjGet(tc.args, "summary")
                          ELSE "Task complete.")
       /\ isDone' = TRUE
       /\ events' = appendEvent(events,
                      [type |-> "tool_call", toolName |-> tc.toolName,
                       args |-> tc.args, result |-> <<LitE("ok", "true")>>])
       /\ ContinueBatch(
            Append(toolResultContent,
                   ToolResult(tc, JSONstringify(<<LitE("ok", "true")>>))),
            TRUE)
  /\ UNCHANGED <<session, meta, recentActions, toolCalls, isScheduledRun,
                 maxIterations, dispatched, decisionCalls, cronTimers,
                 resumes, toolErrors, quietVars>>

\* ActLoopDetected that leaves the batch (break in place of continue).
ActLoopDetectedBreaks ==
  /\ pc = "act"
  /\ toolCalls[tcIdx].toolName # "done"
  /\ LET tc == toolCalls[tcIdx] IN
       /\ recentActions' = record(recentActions, tc.toolName, tc.args)
       /\ isLooping(recentActions')
       /\ ContinueBatch(
            Append(toolResultContent, ToolResult(tc, LoopDetectedResult)),
            TRUE)
  /\ UNCHANGED <<session, meta, events, toolCalls, isDone, doneSummary,
                 isScheduledRun, maxIterations, dispatched, decisionCalls,
                 cronTimers, resumes, toolErrors, quietVars>>

\* Loop detection: the action is recorded and the detector reports looping.
ActLoopDetected ==
  /\ pc = "act"
  /\ toolCalls[tcIdx].toolName # "done"
  /\ LET tc == toolCalls[tcIdx] IN
       /\ recentActions' = record(recentActions, tc.toolName, tc.args)
       /\ isLooping(recentActions')
       /\ ContinueBatch(
            Append(toolResultContent, ToolResult(tc, LoopDetectedResult)),
            FALSE)
  /\ UNCHANGED <<session, meta, events, toolCalls, isDone, doneSummary,
                 isScheduledRun, maxIterations, dispatched, decisionCalls,
                 cronTimers, resumes, toolErrors, quietVars>>

\* ActExecute that leaves the batch when the executor throws.
ActExecuteThrowBreaks ==
  /\ pc = "act"
  /\ toolCalls[tcIdx].toolName \notin {"done", "ask_user", "sleep_until"}
  /\ LET tc == toolCalls[tcIdx] IN
       /\ recentActions' = record(recentActions, tc.toolName, tc.args)
       /\ ~isLooping(recentActions')
       /\ dispatched' = Append(dispatched, tc)
       /\ \E fails \in BOOLEAN :
            /\ fails => tc.toolName \in MayThrow /\ toolErrors < MaxToolErrors
            /\ LET ex == execute(session, isScheduledRun, tc.toolName,
                                 tc.args, fails)
               IN  /\ session' = ex.session
                   /\ meta' = IF ex.saved THEN saveSessionMeta(ex.session)
                              ELSE meta
                   /\ emitted' = emitted \o ex.emitted
                   /\ IF ex.thrown
                      THEN /\ events' = appendEvent(events \o ex.appended,
                                          [type |-> "tool_error",
                                           toolName |-> tc.toolName,
                                           args |-> tc.args,
                                           error |-> ex.error])
                           /\ toolErrors' = toolErrors + 1
                           /\ ContinueBatch(
                                Append(toolResultContent,
                                  ToolResult(tc, JSONstringify(
                                    <<LitE("ok", "false"),
                                      StrE("error", ex.error)>>))),
                                TRUE)
                      ELSE /\ events' = appendEvent(events \o ex.appended,
                                          [type |-> "tool_call",
                                           toolName |-> tc.toolName,
                                           args |-> tc.args,
                                           result |-> ex.result])
                           /\ toolErrors' = toolErrors
                           /\ ContinueBatch(
                                Append(toolResultContent,
                                  ToolResult(tc, JSONstringify(ex.result))),
                                FALSE)
  /\ UNCHANGED <<toolCalls, isDone, doneSummary, isScheduledRun,
                 maxIterations, decisionCalls, cronTimers, resumes,
                 silentVars>>

\* The action is dispatched to the executor and returns or throws.
ActExecute ==
  /\ pc = "act"
  /\ toolCalls[tcIdx].toolName \notin {"done", "ask_user", "sleep_until"}
  /\ LET tc == toolCalls[tcIdx] IN
       /\ recentActions' = record(recentActions, tc.toolName, tc.args)
       /\ ~isLooping(recentActions')
       /\ dispatched' = Append(dispatched, tc)
       /\ \E fails \in BOOLEAN :
            /\ fails => tc.toolName \in MayThrow /\ toolErrors < MaxToolErrors
            /\ LET ex == execute(session, isScheduledRun, tc.toolName,
                                 tc.args, fails)
               IN  /\ session' = ex.session
                   /\ meta' = IF ex.saved THEN saveSessionMeta(ex.session)
                              ELSE meta
                   /\ emitted' = emitted \o ex.emitted
                   /\ IF ex.thrown
                      THEN /\ events' = appendEvent(events \o ex.appended,
                                          [type |-> "tool_error",
                                           toolName |-> tc.toolName,
                                           args |-> tc.args,
                                           error |-> ex.error])
                           /\ toolErrors' = toolErrors + 1
                           /\ ContinueBatch(
                                Append(toolResultContent,
                                  ToolResult(tc, JSONstringify(
                                    <<LitE("ok", "false"),
                                      StrE("error", ex.error)>>))),
                                FALSE)
                      ELSE /\ events' = appendEvent(events \o ex.appended,
                                          [type |-> "tool_call",
                                           toolName |-> tc.toolName,
                                           args |-> tc.args,
                                           result |-> ex.result])
                           /\ toolErrors' = toolErrors
                           /\ ContinueBatch(
                                Append(toolResultContent,
                                  ToolResult(tc, JSONstringify(ex.result))),
                                FALSE)
  /\ UNCHANGED <<toolCalls, isDone, doneSummary, isScheduledRun,
                 maxIterations, decisionCalls, cronTimers, resumes,
                 silentVars>>

\* case "ask_user" up to the await of onHumanInput.
ActAskUser ==
  /\ pc = "act"
  /\ toolCalls[tcIdx].toolName = "ask_user"
  /\ LET tc == toolCalls[tcIdx] IN
       /\ recentActions' = record(recentActions, tc.toolName, tc.args)
       /\ ~isLooping(recentActions')
       /\ dispatched' = Append(dispatched, tc)
       /\ emitted' = Append(emitted,
                        [type |-> "human_input_needed",
                         question |-> ObjGet(tc.args, "question")])
  /\ pc' = "asking"
  /\ UNCHANGED <<session, meta, events, messages, toolCalls, tcIdx,
                 toolResultContent, isDone, doneSummary, isScheduledRun,
                 maxIterations, decisionCalls, cronTimers, resumes,
                 toolErrors, silentVars>>

\* The executor's own log entry of an ask_user call.
RedactedAskEvent(tc) ==
  [type |-> "tool_call", toolName |-> "ask_user",
   args |-> <<StrE("question", ObjGet(tc.args, "question"))>>,
   result |-> <<StrE("answer", "[redacted from logs]")>>]

\* execute returns toolResult for ask_user: the ACT loop logs the call with
\* it and pushes it to toolResultContent.
AskUserReturns(log, tc, toolResult) ==
  /\ events' = appendEvent(log, [type |-> "tool_call",
                                 toolName |-> tc.toolName,
                                 args |-> tc.args, result |-> toolResult])
  /\ ContinueBatch(
       Append(toolResultContent, ToolResult(tc, JSONstringify(toolResult))),
       FALSE)

\* HumanAnswers returning the redacted answer to the ACT loop.
HumanAnswersRedacted ==
  /\ pc = "asking"
  /\ \E answer \in Answers :
       LET tc == toolCalls[tcIdx] IN
         /\ humanInput' = Append(humanInput, answer)
         /\ IF looksLikeCreds(answer)
            THEN /\ events' = appendEvent(events, RedactedAskEvent(tc))
                 /\ emitted' = Append(emitted,
                      [type |-> "human_input_needed",
                       question |-> "Save these credentials for future sessions?"])
                 /\ pc' = "askingSave"
                 /\ UNCHANGED <<messages, tcIdx, toolResultContent>>
            ELSE /\ AskUserReturns(appendEvent(events, RedactedAskEvent(tc)),
                                   tc,
                                   <<StrE("answer", "[redacted from logs]")>>)
                 /\ emitted' = emitted
  /\ UNCHANGED <<session, meta, recentActions, toolCalls, isDone, doneSummary,
                 isScheduledRun, maxIterations, dispatched, decisionCalls,
                 cronTimers, resumes, toolErrors, summaryCalls, recorded,
                 script, storeVars, finishReason, subRuns, activeSession>>

\* onHumanInput resolves with the human's answer: the executor logs the
\* redacted call, then either asks whether to save the credentials or
\* returns the answer.
HumanAnswers ==
  /\ pc = "asking"
  /\ \E answer \in Answers :
       LET tc == toolCalls[tcIdx] IN
         /\ humanInput' = Append(humanInput, answer)
         /\ IF looksLikeCreds(answer)
            THEN /\ events' = appendEvent(events, RedactedAskEvent(tc))
                 /\ emitted' = Append(emitted,
                      [type |-> "human_input_needed",
                       question |-> "Save these credentials for future sessions?"])
                 /\ pc' = "askingSave"
                 /\ UNCHANGED <<messages, tcIdx, toolResultContent>>
            ELSE /\ AskUserReturns(appendEvent(events, RedactedAskEvent(tc)),
                                   tc, <<StrE("answer", answer)>>)
                 /\ emitted' = emitted
  /\ UNCHANGED <<session, meta, recentActions, toolCalls, isDone, doneSummary,
                 isScheduledRun, maxIterations, dispatched, decisionCalls,
                 cronTimers, resumes, toolErrors, summaryCalls, recorded,
                 script, storeVars, finishReason, subRuns, activeSession>>

\* The human replies to the save prompt; the executor returns the answer
\* given to the question itself.
HumanAnswersSave ==
  /\ pc = "askingSave"
  /\ \E saveAs \in SaveAsReplies :
       LET tc == toolCalls[tcIdx]
           answer == humanInput[Len(humanInput)]
       IN  /\ humanInput' = Append(humanInput, saveAs)
           /\ emitted' = IF saveAs # ""
                         THEN Append(emitted, [type |-> "credentials_saved",
                                               profileName |-> saveAs])
                         ELSE emitted
           /\ AskUserReturns(events, tc, <<StrE("answer", answer)>>)
  /\ UNCHANGED <<session, meta, recentActions, toolCalls, isDone, doneSummary,
                 isScheduledRun, maxIterations, dispatched, decisionCalls,
                 cronTimers, resumes, toolErrors, summaryCalls, recorded,
                 script, storeVars, finishReason, subRuns, activeSession>>

WakeTime == "now+5s"

\* case "sleep_until" up to the await of the timer.
ActSleep ==
  /\ pc = "act"
  /\ toolCalls[tcIdx].toolName = "sleep_until"
  /\ LET tc == toolCalls[tcIdx] IN
       /\ recentActions' = record(recentActions, tc.toolName, tc.args)
       /\ ~isLooping(recentActions')
       /\ dispatched' = Append(dispatched, tc)
  /\ events' = appendEvent(events, [type |-> "sleeping_until",
                                    until |-> WakeTime])
  /\ emitted' = Append(emitted, [type |-> "sleeping", until |-> WakeTime])
  /\ session' = updateSessionStatus(session, "sleeping")
  /\ meta' = saveSessionMeta(session')
  /\ pc' = "sleeping"
  /\ UNCHANGED <<messages, toolCalls, tcIdx, toolResultContent, isDone,
                 doneSummary, isScheduledRun, maxIterations, decisionCalls,
                 cronTimers, resumes, toolErrors, silentVars>>

\* WakeUp that leaves the status as it is.
WakeUpStaysSleeping ==
  /\ pc = "sleeping"
  /\ session' = session
  /\ meta' = saveSessionMeta(session')
  /\ LET tc == toolCalls[tcIdx]
         toolResult == <<LitE("ok", "true"), StrE("sleptUntil", WakeTime),
                         StrE("reason", "")>>
     IN  /\ events' = appendEvent(events,
                        [type |-> "tool_call", toolName |-> tc.toolName,
                         args |-> tc.args, result |-> toolResult])
         /\ ContinueBatch(
              Append(toolResultContent,
                     ToolResult(tc, JSONstringify(toolResult))),
              FALSE)
  /\ UNCHANGED <<recentActions, toolCalls, isDone, doneSummary,
                 isScheduledRun, maxIterations, dispatched, decisionCalls,
                 cronTimers, resumes, toolErrors, quietVars>>

\* The timer fires: sleep_until returns and the ACT loop logs the call.
WakeUp ==
  /\ pc = "sleeping"
  /\ session' = updateSessionStatus(session, "running")
  /\ meta' = saveSessionMeta(session')
  /\ LET tc == toolCalls[tcIdx]
         toolResult == <<LitE("ok", "true"), StrE("sleptUntil", WakeTime),
                         StrE("reason", "")>>
     IN  /\ events' = appendEvent(events,
                        [type |-> "tool_call", toolName |-> tc.toolName,
                         args |-> tc.args, result |-> toolResult])
         /\ ContinueBatch(
              Append(toolResultContent,
                     ToolResult(tc, JSONstringify(toolResult))),
              FALSE)
  /\ UNCHANGED <<recentActions, toolCalls, isDone, doneSummary,
                 isScheduledRun, maxIterations, dispatched, decisionCalls,
                 cronTimers, resumes, toolErrors, quietVars>>

(***************************************************************************)
(* runTask: post-loop disposition (runner.ts 1493-1515, 1537-1592)         *)
(***************************************************************************)
\* CeilingSummary reporting the ceiling minus one.
CeilingSummaryOffByOne(n) ==
  "Task hit the maximum iteration limit (" \o ToString(n - 1) \o
  ") without completing."

CeilingSummary(n) ==
  "Task hit the maximum iteration limit (" \o ToString(n) \o
  ") without completing."

LoopExits == isDone \/ session.iteration >= maxIterations

\* The loop has ended and runTask returns the session.
Finish ==
  /\ pc = "loop"
  /\ LoopExits
  /\ ~(isDone /\ Len(session.scheduledJobs) > 0)
  /\ doneSummary' = IF session.iteration >= maxIterations /\ ~isDone
                    THEN CeilingSummary(maxIterations)
                    ELSE doneSummary
  /\ session' = [updateSessionStatus(session,
                    IF session.iteration >= maxIterations /\ ~isDone
                    THEN "failed" ELSE "completed")
                   EXCEPT !.finalSummary = <<doneSummary'>>]
  /\ meta' = saveSessionMeta(session')
  /\ events' = appendEvent(events, [type |-> "session_end",
                                    summary |-> doneSummary',
                                    status |-> session'.status])
  /\ emitted' = Append(emitted, [type |-> "done", summary |-> doneSummary'])
  /\ pc' = "returned"
  /\ UNCHANGED <<messages, recentActions, toolCalls, tcIdx,
                 toolResultContent, isDone, isScheduledRun, maxIterations,
                 dispatched, decisionCalls, cronTimers, resumes, toolErrors,
                 silentVars>>

\* StartScheduledJobs registering only the first job of the list.
StartScheduledJobsFirstOnly ==
  /\ pc = "loop"
  /\ isDone /\ Len(session.scheduledJobs) > 0
  /\ session' = updateSessionStatus(session, "scheduled")
  /\ meta' = saveSessionMeta(session')
  /\ cronTimers' = cronTimers \o <<session.scheduledJobs[1]>>
  /\ pc' = "scheduler"
  /\ UNCHANGED <<events, messages, recentActions, toolCalls, tcIdx,
                 toolResultContent, isDone, doneSummary, isScheduledRun,
                 maxIterations, dispatched, decisionCalls, resumes,
                 toolErrors, quietVars>>

\* The loop has ended with scheduled jobs: startScheduledJobs registers
\* them and awaits a promise that never resolves.
StartScheduledJobs ==
  /\ pc = "loop"
  /\ isDone /\ Len(session.scheduledJobs) > 0
  /\ session' = updateSessionStatus(session, "scheduled")
  /\ meta' = saveSessionMeta(session')
  /\ cronTimers' = cronTimers \o session.scheduledJobs
  /\ pc' = "scheduler"
  /\ UNCHANGED <<events, messages, recentActions, toolCalls, tcIdx,
                 toolResultContent, isDone, doneSummary, isScheduledRun,
                 maxIterations, dispatched, decisionCalls, resumes,
                 toolErrors, quietVars>>

(***************************************************************************)
(* Scheduler: cron fires and the sub-runs they start (runner.ts 1552-1582). *)
(* A sub-run is a runTask call of its own; it is followed through what it  *)
(* does to session objects and session files: its session set-up, its      *)
(* iteration starts, its memory writes and its disposition.                *)
(***************************************************************************)
\* generateSessionId for the n-th session created by the process: the time
\* stamp and the random suffix are taken to differ from call to call.
generateSessionId(n) == "task-" \o ToString(n)

\* The goal of a sub-run: the job's task description, with a hint when the
\* memory snapshot holds a thread URL.
AugmentedGoal(job, memorySnapshot) ==
  IF "thread_url" \in DOMAIN memorySnapshot
  THEN job.taskDescription \o "\n\n[Use thread_url from memory: " \o
       memorySnapshot["thread_url"] \o "]"
  ELSE job.taskDescription

\* runTask of a sub-run, without a sessionId: createSession and the merge
\* of the inherited memory into the new session's memory.
SubRunSession(n, goal, inheritedMemory) ==
  [createSession(goal) EXCEPT !.id = generateSessionId(n),
                              !.memory = Merge(@, inheritedMemory)]

SubRunPut(i, s, at) ==
  subRuns' = [subRuns EXCEPT ![i] = [session |-> s,
                                     meta |-> saveSessionMeta(s),
                                     pc |-> at]]

\* Fire that starts the sub-run without the memory snapshot.
FireWithoutSnapshot ==
  /\ pc = "scheduler"
  /\ Len(subRuns) < MaxFires
  /\ \E j \in 1..Len(cronTimers) :
       LET job == cronTimers[j]
           memorySnapshot == <<>>
           s == SubRunSession(Len(subRuns) + 2,
                              AugmentedGoal(job, memorySnapshot),
                              memorySnapshot)
       IN  /\ meta' = saveSessionMeta(session)
           /\ subRuns' = Append(subRuns, [session |-> s,
                                          meta |-> saveSessionMeta(s),
                                          pc |-> "loop"])
  /\ activeSession' = Len(subRuns) + 1
  /\ UNCHANGED <<session, events, messages, recentActions, pc, toolCalls,
                 tcIdx, toolResultContent, isDone, doneSummary,
                 isScheduledRun, maxIterations, dispatched, decisionCalls,
                 cronTimers, resumes, toolErrors, summaryCalls, recorded,
                 script, storeVars, finishReason, emitted, humanInput>>

\* The cron callback of a registered job: the parent session is saved,
\* its memory is copied and a sub-run is started with the copy; the
\* sub-run reports its session to onSessionUpdate.
Fire ==
  /\ pc = "scheduler"
  /\ Len(subRuns) < MaxFires
  /\ \E j \in 1..Len(cronTimers) :
       LET job == cronTimers[j]
           memorySnapshot == session.memory
           s == SubRunSession(Len(subRuns) + 2,
                              AugmentedGoal(job, memorySnapshot),
                              memorySnapshot)
       IN  /\ meta' = saveSessionMeta(session)
           /\ subRuns' = Append(subRuns, [session |-> s,
                                          meta |-> saveSessionMeta(s),
                                          pc |-> "loop"])
  /\ activeSession' = Len(subRuns) + 1
  /\ UNCHANGED <<session, events, messages, recentActions, pc, toolCalls,
                 tcIdx, toolResultContent, isDone, doneSummary,
                 isScheduledRun, maxIterations, dispatched, decisionCalls,
                 cronTimers, resumes, toolErrors, summaryCalls, recorded,
                 script, storeVars, finishReason, emitted, humanInput>>

subRunFrame == <<session, meta, events, messages, recentActions, pc,
                 toolCalls, tcIdx, toolResultContent, isDone, doneSummary,
                 isScheduledRun, maxIterations, dispatched, decisionCalls,
                 cronTimers, resumes, toolErrors, summaryCalls, recorded,
                 script, storeVars, finishReason, emitted, humanInput>>

\* A step of runTask itself, as against the SIGINT handler ending the
\* process.
LoopStep == pc' # "exited"

\* A sub-run starts an iteration (its maxIterations is the parent's option).
SubRunIterationStart ==
  \E i \in 1..Len(subRuns) :
    /\ subRuns[i].pc = "loop"
    /\ subRuns[i].session.iteration < Min(maxIterations, MaxSubIter)
    /\ SubRunPut(i, [subRuns[i].session EXCEPT !.iteration = @ + 1], "act")
    /\ activeSession' = i
    /\ UNCHANGED subRunFrame

\* The value a sub-run stores under k1.
SubRunNote(i) == "seen by " \o subRuns[i].session.id

\* A sub-run executes remember(k1, ...): executeRemember on its session.
SubRunRemember ==
  \E i \in 1..Len(subRuns) :
    /\ subRuns[i].pc = "act"
    /\ SubRunPut(i, executeRemember(subRuns[i].session,
                                    Remember("k1", SubRunNote(i)).args).session,
                 "loop")
    /\ UNCHANGED <<subRunFrame, activeSession>>

\* A sub-run signals completion or ends its batch, and its loop ends:
\* post-loop disposition of the sub-run.
SubRunFinish ==
  \E i \in 1..Len(subRuns), done \in BOOLEAN :
    /\ subRuns[i].pc \in {"act", "loop"}
    /\ subRuns[i].session.iteration >= 1
    /\ ~done => subRuns[i].session.iteration >= maxIterations
    /\ SubRunPut(i,
         [updateSessionStatus(subRuns[i].session,
                              IF done THEN "completed" ELSE "failed")
            EXCEPT !.finalSummary =
              <<IF done THEN "Task complete."
                ELSE CeilingSummary(maxIterations)>>],
         "returned")
    /\ UNCHANGED <<subRunFrame, activeSession>>

(***************************************************************************)
(* CLI: the SIGINT handler of the task command (cli.ts 1870-1895)          *)
(***************************************************************************)
InterruptedSummary == "Task interrupted by user (Ctrl+C)."

Interrupted(s) ==
  [s EXCEPT !.status = "failed", !.finalSummary = <<InterruptedSummary>>]

\* SIGINT arrives while runTask has not returned: activeSession is marked
\* failed and saved, and the process exits.
onSigint ==
  /\ script.mode = "run"
  /\ pc \notin {"returned", "threw", "exited"}
  /\ IF activeSession = 0
     THEN /\ session' = Interrupted(session)
          /\ meta' = saveSessionMeta(session')
          /\ UNCHANGED subRuns
     ELSE /\ SubRunPut(activeSession,
                       Interrupted(subRuns[activeSession].session),
                       subRuns[activeSession].pc)
          /\ UNCHANGED <<session, meta>>
  /\ pc' = "exited"
  /\ UNCHANGED <<events, messages, recentActions, toolCalls, tcIdx,
                 toolResultContent, isDone, doneSummary, isScheduledRun,
                 maxIterations, dispatched, decisionCalls, cronTimers, resumes,
                 toolErrors, summaryCalls, recorded, script, storeVars,
                 finishReason, emitted, humanInput, activeSession>>

(***************************************************************************)
(* Session-store writes that throw (session.ts 62-75): writeFileSync or    *)
(* appendFileSync fails, e.g. on a full disk.  A fault is transient (the    *)
(* next write succeeds) or lasting (the writes that follow throw as well).  *)
(***************************************************************************)
StoreError == "ENOSPC: no space left on device, write"

\* The catch block of runTask (runner.ts 1516-1522) entered with session s
\* and error message msg.  updateSessionStatus sets the status and saves;
\* when that save throws, the assignment of finalSummary, the second save
\* and the error notification are not reached.
CatchBlock(s, onDisk, msg, saveThrows) ==
  IF saveThrows
  THEN [session |-> [s EXCEPT !.status = "failed"], meta |-> onDisk,
        emitted |-> <<>>, faults |-> 1]
  ELSE LET failed == [updateSessionStatus(s, "failed")
                        EXCEPT !.finalSummary = <<"Error: " \o msg>>]
       IN  [session |-> failed, meta |-> saveSessionMeta(failed),
            emitted |-> <<[type |-> "error", error |-> msg]>>,
            faults |-> 0]

\* The head of the while loop (runner.ts 1296-1304) when saveSessionMeta
\* or the appendEvent of iteration_start throws: the catch block runs and
\* runTask rejects.
IterationStartStoreFails ==
  /\ pc = "loop"
  /\ ~isDone /\ session.iteration < maxIterations
  /\ storeFaults < MaxStoreFaults
  /\ \E at \in {"saveSessionMeta", "appendEvent"}, lasting \in BOOLEAN :
       LET s1 == [session EXCEPT !.iteration = @ + 1]
           onDisk == IF at = "appendEvent" THEN saveSessionMeta(s1) ELSE meta
           c == CatchBlock(s1, onDisk, StoreError, lasting)
       IN  /\ session' = c.session
           /\ meta' = c.meta
           /\ emitted' = emitted \o c.emitted
           /\ storeFaults' = storeFaults + 1 + c.faults
           /\ activeSession' = IF at = "appendEvent" THEN 0
                               ELSE activeSession
  /\ pc' = "threw"
  /\ UNCHANGED <<events, messages, recentActions, toolCalls, tcIdx,
                 toolResultContent, isDone, doneSummary, isScheduledRun,
                 maxIterations, dispatched, decisionCalls, cronTimers,
                 resumes, toolErrors, summaryCalls, recorded, script,
                 storeFile, finishReason, humanInput, subRuns>>

\* case "remember" (runner.ts 544-556) when saveSessionMeta or the
\* appendEvent of memory_update throws: the throw is caught by the try
\* around executor.execute (runner.ts 1469-1485), which appends tool_error
\* and goes on with the batch; when that append throws too, the catch
\* block of runTask runs.
ActRememberStoreFails ==
  /\ pc = "act"
  /\ toolCalls[tcIdx].toolName = "remember"
  /\ storeFaults < MaxStoreFaults
  /\ LET tc == toolCalls[tcIdx]
         key == ObjGet(tc.args, "key")
         s1 == [session EXCEPT
                  !.memory = Merge(@, [k \in {key} |->
                                         ObjGet(tc.args, "value")])]
     IN
       /\ recentActions' = record(recentActions, tc.toolName, tc.args)
       /\ ~isLooping(recentActions')
       /\ dispatched' = Append(dispatched, tc)
       /\ toolErrors' = toolErrors + 1
       /\ \E at \in {"saveSessionMeta", "appendEvent"}, lasting \in BOOLEAN :
            LET onDisk == IF at = "appendEvent" THEN saveSessionMeta(s1)
                          ELSE meta
            IN  IF lasting
                THEN LET c == CatchBlock(s1, onDisk, StoreError, TRUE)
                     IN  /\ session' = c.session
                         /\ meta' = c.meta
                         /\ storeFaults' = storeFaults + 2 + c.faults
                         /\ pc' = "threw"
                         /\ UNCHANGED <<events, messages, tcIdx,
                                        toolResultContent>>
                ELSE /\ session' = s1
                     /\ meta' = onDisk
                     /\ storeFaults' = storeFaults + 1
                     /\ events' = appendEvent(events,
                                    [type |-> "tool_error",
                                     toolName |-> tc.toolName,
                                     args |-> tc.args,
                                     error |-> StoreError])
                     /\ ContinueBatch(
                          Append(toolResultContent,
                            ToolResult(tc, JSONstringify(
                              <<LitE("ok", "false"),
                                StrE("error", StoreError)>>))),
                          FALSE)
  /\ UNCHANGED <<toolCalls, isDone, doneSummary, isScheduledRun, maxIterations,
                 decisionCalls, cronTimers, resumes, summaryCalls, recorded,
                 script, storeFile, finishReason, emitted, cliVars>>

Next ==
  \/ IterationStart
  \/ Compact
  \/ Think
  \/ ThinkThrows
  \/ ActDone
  \/ ActLoopDetected
  \/ ActExecute
  \/ ActAskUser
  \/ HumanAnswers
  \/ HumanAnswersSave
  \/ ActSleep
  \/ WakeUp
  \/ Finish
  \/ StartScheduledJobs
  \/ Resume
  \/ onSigint

Spec == Init /\ [][Next]_vars

(***************************************************************************)
(* The runs that sleep: the steps of runTask a sleep_until action takes    *)
(* part in, with the steps of the loop around it and the SIGINT handler.   *)
(* The timer of a sleep_until call fires once its delay has elapsed.       *)
(***************************************************************************)
NextSleep ==
  \/ IterationStart
  \/ Compact
  \/ Think
  \/ ActSleep
  \/ WakeUp
  \/ Finish
  \/ onSigint

SpecSleep == Init /\ [][NextSleep]_vars /\ WF_vars(WakeUp)

(***************************************************************************)
(* The runs in which a session-store write throws: the loop of runTask     *)
(* with the two places modelled where a write of the store can fail.       *)
(***************************************************************************)
NextStore ==
  \/ IterationStart
  \/ Compact
  \/ Think
  \/ ActDone
  \/ ActLoopDetected
  \/ ActExecute
  \/ Finish
  \/ IterationStartStoreFails
  \/ ActRememberStoreFails

SpecStore == Init /\ [][NextStore]_vars

(***************************************************************************)
(* A fresh run whose oracle follows a plan: remember(k1, v1),              *)
(* remember(k2, v2) and done("done"), given in one, two or three decision  *)
(* responses.                                                              *)
(***************************************************************************)
PlanActions == <<Remember("k1", "v1"), Remember("k2", "v2"), Done("done")>>

\* The ways of cutting PlanActions into consecutive non-empty batches.
Plans ==
  { <<PlanActions>>,
    <<SubSeq(PlanActions, 1, 1), SubSeq(PlanActions, 2, 3)>>,
    <<SubSeq(PlanActions, 1, 2), SubSeq(PlanActions, 3, 3)>>,
    <<SubSeq(PlanActions, 1, 1), SubSeq(PlanActions, 2, 2),
      SubSeq(PlanActions, 3, 3)>> }

\* The responses of the oracle in the given iteration of the plan.
PlanResponses(plan, iteration) ==
  IF iteration \in 1..Len(plan)
  THEN { [text |-> t, toolCalls |-> WithIds(plan[iteration], iteration),
          finishReason |-> "tool-calls"] : t \in {"", "thinking"} }
  ELSE {}

\* runTask called without a sessionId and without inherited memory, with
\* the default ceiling or a ceiling of PlanCeiling iterations.
InitPlan ==
  \E plan \in Plans, maxIt \in {PlanCeiling, DEFAULT_MAX_ITERATIONS} :
    /\ script = [mode |-> "plan", plan |-> plan]
    /\ session = createSession(Goal)
    /\ meta = saveSessionMeta(createSession(Goal))
    /\ events = <<[type |-> "session_start", goal |-> Goal]>>
    /\ messages = <<[role |-> "user", content |-> Goal]>>
    /\ recentActions = <<>>
    /\ pc = "loop"
    /\ toolCalls = <<>>
    /\ tcIdx = 0
    /\ toolResultContent = <<>>
    /\ isDone = FALSE
    /\ doneSummary = ""
    /\ isScheduledRun = FALSE
    /\ maxIterations = maxIt
    /\ dispatched = <<>>
    /\ decisionCalls = 0
    /\ cronTimers = <<>>
    /\ resumes = 0
    /\ toolErrors = 0
    /\ summaryCalls = <<>>
    /\ recorded = <<>>
    /\ emitted = <<>>
    /\ humanInput = <<>>
    /\ subRuns = <<>>
    /\ activeSession = 0
    /\ storeFaults = 0
    /\ storeFile = <<>>
    /\ finishReason = ""

ThinkPlanned == Decide(PlanResponses(script.plan, session.iteration))

NextPlan ==
  \/ IterationStart
  \/ Compact
  \/ ThinkPlanned
  \/ ActExecute
  \/ ActDone
  \/ Finish

SpecPlan == InitPlan /\ [][NextPlan]_vars

(***************************************************************************)
(* The event log as text (session.ts 71-94).  The text of <id>.jsonl is a  *)
(* sequence of tokens: the JSON text of one event, which holds no raw      *)
(* newline because JSON.stringify escapes it, or a newline character.      *)
(***************************************************************************)
JsonText(e) == [kind |-> "json", value |-> e]
Newline == [kind |-> "nl", value |-> <<>>]

\* appendEvent: fs.appendFileSync(path, JSON.stringify(event) + "\n").
appendFileSync(text, data) == text \o data
EventLine(e) == <<JsonText(e), Newline>>

\* String.prototype.trim on the text of the file.
RECURSIVE TrimStart(_)
TrimStart(text) ==
  IF Len(text) > 0 /\ text[1].kind = "nl" THEN TrimStart(Tail(text))
  ELSE text
RECURSIVE TrimEnd(_)
TrimEnd(text) ==
  IF Len(text) > 0 /\ text[Len(text)].kind = "nl"
  THEN TrimEnd(SubSeq(text, 1, Len(text) - 1))
  ELSE text
Trim(text) == TrimEnd(TrimStart(text))

\* String.prototype.split("\n"): the empty text gives one empty line.
RECURSIVE SplitLines(_)
SplitLines(text) ==
  IF Len(text) = 0 THEN << <<>> >>
  ELSE LET before == SplitLines(SubSeq(text, 1, Len(text) - 1))
           c == text[Len(text)]
       IN  IF c.kind = "nl" THEN Append(before, <<>>)
           ELSE [before EXCEPT ![Len(before)] = Append(@, c)]

\* JSON.parse of one line under try/catch: <<value>>, or <<>> for the null
\* that stands for a line that does not parse (two JSON texts in a row are
\* not a JSON text).
ParseLine(line) ==
  IF Len(line) = 1 /\ line[1].kind = "json" THEN <<line[1].value>> ELSE <<>>

RECURSIVE ParsedLines(_)
ParsedLines(lines) ==
  IF Len(lines) = 0 THEN <<>>
  ELSE ParseLine(Head(lines)) \o ParsedLines(Tail(lines))

\* loadEvents that returns the events newest first.
loadEventsNewestFirst(text) ==
  LET loaded ==
        ParsedLines(SelectSeq(SplitLines(Trim(text)),
                              LAMBDA l : Len(l) > 0))
  IN  [i \in 1..Len(loaded) |-> loaded[Len(loaded) + 1 - i]]

\* loadEvents: the lines of the trimmed text that are not empty, parsed,
\* without the lines that do not parse; a missing file is the empty text.
loadEvents(text) ==
  ParsedLines(SelectSeq(SplitLines(Trim(text)), LAMBDA l : Len(l) > 0))

\* The events the log harness appends: ts is the clock reading put in the
\* event, which may go backwards between two appends.
LogEvents ==
  { [type |-> "iteration_start", iteration |-> i, ts |-> t] :
      i \in 1..2, t \in 1..MaxClock }

InitLog ==
  /\ script = [mode |-> "log"]
  /\ session = createSession(Goal)
  /\ meta = saveSessionMeta(createSession(Goal))
  /\ events = <<>>
  /\ storeFile = <<>>
  /\ messages = <<[role |-> "user", content |-> Goal]>>
  /\ recentActions = <<>>
  /\ pc = "loop"
  /\ toolCalls = <<>>
  /\ tcIdx = 0
  /\ toolResultContent = <<>>
  /\ isDone = FALSE
  /\ doneSummary = ""
  /\ isScheduledRun = FALSE
  /\ maxIterations = DEFAULT_MAX_ITERATIONS
  /\ dispatched = <<>>
  /\ decisionCalls = 0
  /\ cronTimers = <<>>
  /\ resumes = 0
  /\ toolErrors = 0
  /\ summaryCalls = <<>>
  /\ recorded = <<>>
  /\ emitted = <<>>
  /\ humanInput = <<>>
  /\ subRuns = <<>>
  /\ activeSession = 0
  /\ storeFaults = 0
  /\ finishReason = ""

\* appendEvent(session.id, e): events is the sequence of events appended,
\* storeFile the text of the file.
AppendOne ==
  /\ Len(events) < MaxAppends
  /\ \E e \in LogEvents :
       /\ events' = appendEvent(events, e)
       /\ storeFile' = appendFileSync(storeFile, EventLine(e))
  /\ UNCHANGED <<session, meta, messages, recentActions, pc, toolCalls,
                 tcIdx, toolResultContent, isDone, doneSummary,
                 isScheduledRun, maxIterations, dispatched, decisionCalls,
                 cronTimers, resumes, toolErrors, summaryCalls, recorded,
                 script, storeFaults, finishReason, emitted, cliVars>>

NextLog == AppendOne

SpecLog == InitLog /\ [][NextLog]_vars

(***************************************************************************)
(* The loop detector on its own: a fresh or partly filled detector is fed  *)
(* signatures by record(), as the ACT loop does at runner.ts 1420.         *)
(***************************************************************************)
FillerSig(i) == Call("type", <<StrE("ref", "f" \o ToString(i))>>)
CycleSig(i) == Click("c" \o ToString(i))
FreeSigs == {Click("e1"), Click("e2"), Call("wait", <<LitE("seconds", "1")>>)}

SigKey(sig) == LoopKey(sig.toolName, sig.args)

\* A detector that has been fed n signatures cycling through p fillers.
FilledWindow(n, p) == [i \in 1..n |-> SigKey(FillerSig(((i - 1) % p) + 1))]

InitDetector ==
  \E mode \in {"free", "cyclic"}, n \in 0..WINDOW, p \in 1..MaxPeriod :
      /\ mode = "cyclic" => n = 0
      /\ script = [mode |-> mode, period |-> p, made |-> 0]
      /\ recentActions = FilledWindow(n, p)
      /\ recorded = FilledWindow(n, p)
      /\ pc = "detector"
      /\ session = createSession(Goal)
      /\ meta = saveSessionMeta(createSession(Goal))
      /\ events = <<[type |-> "session_start", goal |-> Goal]>>
      /\ messages = <<[role |-> "user", content |-> Goal]>>
      /\ toolCalls = <<>>
      /\ tcIdx = 0
      /\ toolResultContent = <<>>
      /\ isDone = FALSE
      /\ doneSummary = ""
      /\ isScheduledRun = FALSE
      /\ maxIterations = MaxIter
      /\ dispatched = <<>>
      /\ decisionCalls = 0
      /\ cronTimers = <<>>
      /\ resumes = 0
      /\ toolErrors = 0
      /\ summaryCalls = <<>>
      /\ emitted = <<>>
      /\ humanInput = <<>>
      /\ subRuns = <<>>
      /\ activeSession = 0
      /\ storeFaults = 0
      /\ storeFile = <<>>
      /\ finishReason = ""

runVars == <<session, meta, events, messages, pc, toolCalls, tcIdx,
             toolResultContent, isDone, doneSummary, isScheduledRun,
             maxIterations, dispatched, decisionCalls, cronTimers, resumes,
             toolErrors, summaryCalls, emitted, storeVars, finishReason,
             cliVars>>

\* loopDetector.record(toolName, args) with the given signature.
RecordSig(sig) ==
  /\ recentActions' = record(recentActions, sig.toolName, sig.args)
  /\ recorded' = IF sig.toolName \in LOOP_EXEMPT_TOOLS THEN recorded
                 ELSE Append(recorded, SigKey(sig))
  /\ script' = [script EXCEPT !.made = @ + 1]
  /\ UNCHANGED runVars

RecordFree ==
  /\ pc = "detector" /\ script.mode = "free"
  /\ script.made < MaxFree
  /\ \E sig \in FreeSigs : RecordSig(sig)

RecordCyclic ==
  /\ pc = "detector" /\ script.mode = "cyclic"
  /\ script.made < MaxCyclic
  /\ RecordSig(CycleSig((script.made % script.period) + 1))

NextDetector == RecordFree \/ RecordCyclic

SpecDetector == InitDetector /\ [][NextDetector]_vars

(***************************************************************************)
(* The compaction step on its own: runTask is at the compaction check of   *)
(* an iteration (runner.ts 1306-1310) with a transcript of a given length, *)
(* built by earlier iterations of the loop.                                *)
(***************************************************************************)
\* The response of an earlier iteration that was text only (finishReason
\* other than stop), and of one that proposed one click, which succeeded.
TextResponse(i) ==
  [text |-> "thought " \o ToString(i), toolCalls |-> <<>>,
   finishReason |-> "length"]
ToolResponse(i) ==
  [text |-> "", toolCalls |-> WithIds(<<Click("h" \o ToString(i))>>, i),
   finishReason |-> "tool-calls"]
ClickResult(i) ==
  execute(createSession(Goal), FALSE, "click",
          ToolResponse(i).toolCalls[1].args, FALSE).result

LlmResponseEvent(r) ==
  [type |-> "llm_response", text |-> r.text, toolCalls |-> r.toolCalls]
AssistantTurn(r) == [role |-> "assistant", content |-> AssistantContent(r)]

\* The shape of a history whose transcript has n turns.  In style "text"
\* every earlier iteration was text only; in style "tools" the click
\* iterations come first and a text-only iteration follows when a turn is
\* left; style "mixed" is style "tools" after one leading text-only
\* iteration.
LeadIterations(n, style) == IF style = "mixed" /\ n >= 2 THEN 1 ELSE 0
ToolIterations(n, style) ==
  IF style = "text" THEN 0 ELSE (n - 1 - LeadIterations(n, style)) \div 2
Iterations(n, style) == (n - 1) - ToolIterations(n, style)

\* The history of a fresh run whose transcript has n turns.
History(n, style) ==
  LET t == ToolIterations(n, style)
      k == Iterations(n, style)
      l == LeadIterations(n, style)
  IN  [messages |->
         [j \in 1..n |->
            IF j = 1 THEN [role |-> "user", content |-> Goal]
            ELSE IF j <= l + 1
            THEN AssistantTurn(TextResponse(j - 1))
            ELSE IF j <= l + 2 * t + 1
            THEN LET i == l + ((j - l) \div 2) IN
                 IF (j - l) % 2 = 0
                 THEN AssistantTurn(ToolResponse(i))
                 ELSE [role |-> "tool",
                       content |->
                         <<ToolResult(ToolResponse(i).toolCalls[1],
                                      JSONstringify(ClickResult(i)))>>]
            ELSE AssistantTurn(TextResponse(j - 1 - t))],
       events |->
         [e \in 1..(1 + 3 * t + 2 * (k - t)) |->
            IF e = 1 THEN [type |-> "session_start", goal |-> Goal]
            ELSE IF e <= 2 * l + 1
            THEN IF e % 2 = 0
                 THEN [type |-> "iteration_start", iteration |-> e \div 2]
                 ELSE LlmResponseEvent(TextResponse(e \div 2))
            ELSE IF e <= 2 * l + 3 * t + 1
            THEN LET i == l + ((e - 2 * l + 1) \div 3) IN
                 IF (e - 2 * l) % 3 = 2
                 THEN [type |-> "iteration_start", iteration |-> i]
                 ELSE IF (e - 2 * l) % 3 = 0
                 THEN LlmResponseEvent(ToolResponse(i))
                 ELSE [type |-> "tool_call", toolName |-> "click",
                       args |-> ToolResponse(i).toolCalls[1].args,
                       result |-> ClickResult(i)]
            ELSE LET i == t + ((e - 3 * t) \div 2) IN
                 IF (e - 3 * t) % 2 = 0
                 THEN [type |-> "iteration_start", iteration |-> i]
                 ELSE LlmResponseEvent(TextResponse(i))],
       recent |->
         [j \in 1..Min(t, WINDOW) |->
            LoopKey("click",
                    ToolResponse(l + j + t - Min(t, WINDOW)).toolCalls[1].args)],
       iterations |-> k]

\* rebuildMessages of the log of History(n, style), in closed form: the
\* turns of the history, with the id "" in every action result (the events
\* of the log carry no tool-call id).
RebuiltHistory(n, style) ==
  LET msgs == History(n, style).messages
  IN  [j \in 1..n |->
         IF msgs[j].role = "tool"
         THEN [role |-> "tool",
               content |-> [i \in 1..Len(msgs[j].content) |->
                              [msgs[j].content[i] EXCEPT !.toolCallId = ""]]]
         ELSE msgs[j]]

\* The run is at the compaction check of its next iteration; resumed says
\* that the earlier iterations were made by a process that was killed, and
\* that this run was started with the id of its session: the transcript is
\* then the one rebuilt from the log, and the loop detector is new.
InitCompact ==
  \E n \in 1..MaxTurns, style \in {"text", "tools", "mixed"},
     resumed \in BOOLEAN :
    LET h == History(n, style)
        s == [createSession(Goal) EXCEPT !.iteration = h.iterations + 1]
    IN  /\ script = [mode |-> "compact", turns |-> n, style |-> style,
                     resumed |-> resumed]
        /\ messages = IF resumed
                      THEN InjectMemory(RebuiltHistory(n, style),
                                        s.memory, FALSE)
                      ELSE h.messages
        /\ events = Append(h.events, [type |-> "iteration_start",
                                      iteration |-> h.iterations + 1])
        /\ recentActions = IF resumed THEN <<>> ELSE h.recent
        /\ session = s
        /\ meta = saveSessionMeta(s)
        /\ pc = "compact"
        /\ toolCalls = <<>>
        /\ tcIdx = 0
        /\ toolResultContent = <<>>
        /\ isDone = FALSE
        /\ doneSummary = ""
        /\ isScheduledRun = FALSE
        /\ maxIterations = DEFAULT_MAX_ITERATIONS
        /\ dispatched = <<>>
        /\ decisionCalls = h.iterations
        /\ cronTimers = <<>>
        /\ resumes = IF resumed THEN 1 ELSE 0
        /\ toolErrors = 0
        /\ summaryCalls = <<>>
        /\ recorded = <<>>
        /\ emitted = <<>>
        /\ humanInput = <<>>
        /\ subRuns = <<>>
        /\ activeSession = 0
        /\ storeFaults = 0
        /\ storeFile = <<>>
        /\ finishReason =
             IF h.iterations = 0 THEN ""
             ELSE IF ToolIterations(n, style) = 0
                     \/ h.iterations > ToolIterations(n, style)
                                         + LeadIterations(n, style)
             THEN "length" ELSE "tool-calls"

NextCompact == Compact \/ Think

SpecCompact == InitCompact /\ [][NextCompact]_vars

(***************************************************************************)
(* The scheduler on its own: a fresh run has signaled completion in its    *)
(* first iteration, after one or two schedule actions of the same batch,   *)
(* and is at the end of its loop (runner.ts 1493).  From there the jobs    *)
(* are registered, the timers fire, sub-runs run and SIGINT may arrive.    *)
(***************************************************************************)
\* The batch of the parent run's only iteration.
HandOffBatch(withMemory, jobs) ==
  (IF withMemory THEN <<Remember("thread_url", "https://t.example")>>
   ELSE <<>>) \o
  <<Schedule("*/5 * * * *", "check again")>> \o
  (IF jobs = 2 THEN <<Schedule("*/5 * * * *", "check the outbox")>>
   ELSE <<>>) \o
  <<Done("watching")>>

\* The ACT loop over calls, none of which throws or is loop-detected:
\* st holds the session, the log, toolResultContent, the detector window,
\* the dispatched calls and the notifications.
RECURSIVE ActBatch(_, _)
ActBatch(st, calls) ==
  IF Len(calls) = 0 THEN st
  ELSE LET tc == Head(calls) IN
       IF tc.toolName = "done"
       THEN [st EXCEPT
               !.events = appendEvent(@,
                  [type |-> "tool_call", toolName |-> tc.toolName,
                   args |-> tc.args, result |-> <<LitE("ok", "true")>>]),
               !.trc = Append(@, ToolResult(tc,
                          JSONstringify(<<LitE("ok", "true")>>)))]
       ELSE LET ex == execute(st.session, FALSE, tc.toolName, tc.args, FALSE)
            IN  ActBatch(
                  [session |-> ex.session,
                   events |-> appendEvent(st.events \o ex.appended,
                                [type |-> "tool_call",
                                 toolName |-> tc.toolName,
                                 args |-> tc.args, result |-> ex.result]),
                   trc |-> Append(st.trc,
                                  ToolResult(tc, JSONstringify(ex.result))),
                   recent |-> record(st.recent, tc.toolName, tc.args),
                   dispatched |-> Append(st.dispatched, tc),
                   emitted |-> st.emitted \o ex.emitted],
                  Tail(calls))

\* The run after its first iteration, whose decision response was r.
FirstIteration(r) ==
  ActBatch(
    [session |-> [createSession(Goal) EXCEPT !.iteration = 1],
     events |-> <<[type |-> "session_start", goal |-> Goal],
                  [type |-> "iteration_start", iteration |-> 1],
                  LlmResponseEvent(r)>>,
     trc |-> <<>>, recent |-> <<>>, dispatched |-> <<>>, emitted |-> <<>>],
    r.toolCalls)

InitScheduler ==
  \E withMemory \in BOOLEAN, jobs \in 1..2, maxIt \in 1..MaxIter :
    LET r == [text |-> "",
              toolCalls |-> WithIds(HandOffBatch(withMemory, jobs), 1),
              finishReason |-> "tool-calls"]
        st == FirstIteration(r)
    IN  /\ script = [mode |-> "run"]
        /\ session = st.session
        /\ meta = saveSessionMeta(st.session)
        /\ events = st.events
        /\ messages = <<[role |-> "user", content |-> Goal],
                        AssistantTurn(r),
                        [role |-> "tool", content |-> st.trc]>>
        /\ recentActions = st.recent
        /\ pc = "loop"
        /\ toolCalls = r.toolCalls
        /\ tcIdx = Len(r.toolCalls)
        /\ toolResultContent = st.trc
        /\ isDone = TRUE
        /\ doneSummary = "watching"
        /\ isScheduledRun = FALSE
        /\ maxIterations = maxIt
        /\ dispatched = st.dispatched
        /\ decisionCalls = 1
        /\ cronTimers = <<>>
        /\ resumes = 0
        /\ toolErrors = 0
        /\ summaryCalls = <<>>
        /\ recorded = <<>>
        /\ emitted = st.emitted
        /\ humanInput = <<>>
        /\ subRuns = <<>>
        /\ activeSession = 0
        /\ storeFaults = 0
        /\ storeFile = <<>>
        /\ finishReason = "tool-calls"

NextScheduler ==
  \/ StartScheduledJobs
  \/ Fire
  \/ SubRunIterationStart
  \/ SubRunRemember
  \/ SubRunFinish
  \/ onSigint

SpecScheduler == InitScheduler /\ [][NextScheduler]_vars

(***************************************************************************)
(* Resuming by id (session.ts 52-60, runner.ts 1173-1188): runTask is      *)
(* called with the id of a session an earlier process left behind.  The    *)
(* text of <id>.json is the JSON text of the session, a proper prefix of   *)
(* it (a write that was cut short), or missing.                            *)
(***************************************************************************)
CutText(s) == [kind |-> "cut", value |-> s]

\* loadSession that takes whatever text it finds for a session.
loadSessionTrusting(text) ==
  IF Len(text) = 0 THEN <<>> ELSE <<text[1].value>>

\* loadSession: <<session>>, or <<>> for null when the file is missing or
\* JSON.parse throws.
loadSession(text) ==
  IF Len(text) = 0 THEN <<>> ELSE ParseLine(text)

\* The session an earlier process left after n iterations: it hit the
\* ceiling n and returned, or its decision call threw in iteration n.
EndedSession(n, ending) ==
  [createSession(Goal) EXCEPT
     !.iteration = n,
     !.status = "failed",
     !.finalSummary = IF ending = "ceiling" THEN <<CeilingSummary(n)>>
                      ELSE <<"Error: oracle unavailable">>]

EndedLog(n, style, ending) ==
  LET turns == IF style = "tools" THEN 2 * n + 1 ELSE n + 1 IN
  IF ending = "ceiling"
  THEN Append(History(turns, style).events,
              [type |-> "session_end", summary |-> CeilingSummary(n),
               status |-> "failed"])
  ELSE Append(History(turns - (IF style = "tools" THEN 2 ELSE 1),
                      style).events,
              [type |-> "iteration_start", iteration |-> n])

InitLoad ==
  \E n \in 1..MaxEnded, style \in {"text", "tools"},
     ending \in {"ceiling", "threw"},
     file \in {"intact", "cut", "missing"} :
    LET ended == EndedSession(n, ending) IN
    /\ script = [mode |-> "load", file |-> file]
    /\ session = ended
    /\ meta = saveSessionMeta(ended)
    /\ storeFile = IF file = "intact" THEN <<JsonText(ended)>>
                   ELSE IF file = "cut" THEN <<CutText(ended)>>
                   ELSE <<>>
    /\ events = EndedLog(n, style, ending)
    /\ messages = rebuildMessages(EndedLog(n, style, ending))
    /\ recentActions = <<>>
    /\ pc = IF ending = "ceiling" THEN "returned" ELSE "threw"
    /\ toolCalls = <<>>
    /\ tcIdx = 0
    /\ toolResultContent = <<>>
    /\ isDone = FALSE
    /\ doneSummary = IF ending = "ceiling" THEN CeilingSummary(n) ELSE ""
    /\ isScheduledRun = FALSE
    /\ maxIterations = n
    /\ dispatched = <<>>
    /\ decisionCalls = n
    /\ cronTimers = <<>>
    /\ resumes = 0
    /\ toolErrors = 0
    /\ summaryCalls = <<>>
    /\ recorded = <<>>
    /\ emitted = <<>>
    /\ humanInput = <<>>
    /\ subRuns = <<>>
    /\ activeSession = 0
    /\ storeFaults = 0
    /\ finishReason = ""

\* runTask called with a sessionId: the resume branch, with the throw of
\* 'not found' when loadSession returns null.
ResumeById ==
  /\ pc \in {"returned", "threw"}
  /\ resumes < MaxResumes
  /\ resumes' = resumes + 1
  /\ LET existing == loadSession(storeFile) IN
       IF Len(existing) = 0
       THEN /\ pc' = "notFound"
            /\ UNCHANGED <<session, meta, storeFile, messages,
                           recentActions, isDone, doneSummary,
                           isScheduledRun, maxIterations, activeSession>>
       ELSE /\ session' = [existing[1] EXCEPT !.status = "running"]
            /\ meta' = saveSessionMeta(session')
            /\ storeFile' = <<JsonText(session')>>
            /\ messages' = InjectMemory(rebuildMessages(events),
                                        existing[1].memory, FALSE)
            /\ recentActions' = <<>>
            /\ isDone' = FALSE
            /\ doneSummary' = ""
            /\ isScheduledRun' = FALSE
            /\ maxIterations' \in 1..MaxIter
            /\ pc' = "loop"
            /\ activeSession' = 0
  /\ UNCHANGED <<events, toolCalls, tcIdx, toolResultContent, dispatched,
                 decisionCalls, cronTimers, toolErrors, summaryCalls,
                 recorded, script, storeFaults, finishReason, emitted,
                 humanInput, subRuns>>

NextLoad == ResumeById

SpecLoad == InitLoad /\ [][NextLoad]_vars

(***************************************************************************)
(* The runs in which every awaited call returns: the loop of runTask       *)
(* from a fresh session, or from the session of a process that was killed  *)
(* between two iterations, up to its return or its hand-off to the         *)
(* scheduler.  No call throws out of the loop and no signal arrives; every *)
(* step of the loop is eventually taken.                                   *)
(***************************************************************************)
\* The decision responses of these runs: an empty response cut off by the
\* length limit, a natural stop, and the batches that dispatch an action,
\* wait for the human, sleep, repeat one action, schedule and complete.
ReturningResponses(iteration) ==
  { [text |-> "", toolCalls |-> WithIds(b, iteration),
     finishReason |-> "tool-calls"] :
      b \in { <<Navigate("https://a.example")>>,
              <<AskUser("code?")>>,
              <<SleepUntil("5s")>>,
              <<Schedule("*/5 * * * *", "check again")>>,
              <<Done("all done")>>,
              [i \in 1..WINDOW |-> Click("e1")] } }
  \cup
  { [text |-> "", toolCalls |-> <<>>, finishReason |-> "length"],
    [text |-> "thinking", toolCalls |-> <<>>, finishReason |-> "stop"] }

InitReturning ==
  \E start \in 0..MaxStart, maxIt \in 1..MaxIter :
    LET h == History(start + 1, "text")
        s == [createSession(Goal) EXCEPT !.iteration = start]
    IN  /\ script = [mode |-> "returning", start |-> start]
        /\ session = s
        /\ meta = saveSessionMeta(s)
        /\ events = h.events
        /\ messages = IF start > 0
                      THEN InjectMemory(RebuiltHistory(start + 1, "text"),
                                        s.memory, FALSE)
                      ELSE h.messages
        /\ recentActions = <<>>
        /\ pc = "loop"
        /\ toolCalls = <<>>
        /\ tcIdx = 0
        /\ toolResultContent = <<>>
        /\ isDone = FALSE
        /\ doneSummary = ""
        /\ isScheduledRun = FALSE
        /\ maxIterations = maxIt
        /\ dispatched = <<>>
        /\ decisionCalls = 0
        /\ cronTimers = <<>>
        /\ resumes = IF start > 0 THEN 1 ELSE 0
        /\ toolErrors = 0
        /\ summaryCalls = <<>>
        /\ recorded = <<>>
        /\ emitted = <<>>
        /\ humanInput = <<>>
        /\ subRuns = <<>>
        /\ activeSession = 0
        /\ storeFaults = 0
        /\ storeFile = <<>>
        /\ finishReason = ""

ThinkReturning == Decide(ReturningResponses(session.iteration))

NextReturning ==
  \/ IterationStart
  \/ Compact
  \/ ThinkReturning
  \/ ActDone
  \/ ActLoopDetected
  \/ ActExecute
  \/ ActAskUser
  \/ HumanAnswers
  \/ HumanAnswersSave
  \/ ActSleep
  \/ WakeUp
  \/ Finish
  \/ StartScheduledJobs

SpecReturning ==
  InitReturning /\ [][NextReturning]_vars /\ WF_vars(NextReturning)

(***************************************************************************)
(* Properties                                                              *)
(***************************************************************************)
Last(q) == q[Len(q)]
LastN(q, n) == SubSeq(q, Max(1, Len(q) - n + 1), Len(q))
Occurrences(q, k) == Cardinality({i \in 1..Len(q) : q[i] = k})

IsResultEvent(e) == e.type \in {"tool_call", "tool_error"}

\* Equality of transcripts, turn by turn and part by part.
PartEq(a, b) == a.type = b.type /\ a = b
MsgEq(a, b) ==
  /\ a.role = b.role
  /\ IF a.role = "user" THEN a.content = b.content
     ELSE /\ Len(a.content) = Len(b.content)
          /\ \A i \in 1..Len(a.content) : PartEq(a.content[i], b.content[i])
TranscriptEq(x, y) ==
  /\ Len(x) = Len(y)
  /\ \A i \in 1..Len(x) : MsgEq(x[i], y[i])

\* The action-result events appended after the last decision response.
LastResponseIndex ==
  CHOOSE i \in 1..Len(events) :
    /\ events[i].type = "llm_response"
    /\ \A j \in (i + 1)..Len(events) : events[j].type # "llm_response"
ResultEventsOfBatch ==
  SelectSeq(SubSeq(events, LastResponseIndex + 1, Len(events)), IsResultEvent)

\* C1: in a run started with the scheduled-sub-run flag, a schedule action,
\* with a valid or an invalid cron expression, gets a result with ok=false
\* (from the executor, or the loop-detected result), scheduledJobs stays as
\* it was in memory and on disk, no scheduled event is in the log and no
\* cron timer is registered.
C1_SubRunScheduleRejected ==
  [][(pc = "act" /\ isScheduledRun /\ LoopStep
        /\ toolCalls[tcIdx].toolName = "schedule")
     => LET tc == toolCalls[tcIdx]
            part == toolResultContent'[Len(toolResultContent')]
        IN  /\ Len(toolResultContent') = Len(toolResultContent) + 1
            /\ part.toolCallId = tc.toolCallId
            /\ IF dispatched' = dispatched
               THEN part.result = LoopDetectedResult /\ events' = events
               ELSE /\ Len(events') = Len(events) + 1
                    /\ events'[Len(events')].type = "tool_call"
                    /\ ObjGet(events'[Len(events')].result, "ok") = "false"
                    /\ ObjHas(events'[Len(events')].result, "error")
                    /\ part.result = JSONstringify(events'[Len(events')].result)
            /\ session'.scheduledJobs = session.scheduledJobs
            /\ meta'.scheduledJobs = meta.scheduledJobs
            /\ \A i \in 1..Len(events') : events'[i].type # "scheduled"
            /\ cronTimers' = cronTimers]_vars

\* C1 witness: a sub-run has dispatched a schedule action with a valid
\* cron expression and the executor has answered ok=false.
C1_Witness ==
  /\ script.mode = "run" /\ isScheduledRun /\ pc = "loop"
  /\ Len(toolCalls) = 1 /\ toolCalls[1].toolName = "schedule"
  /\ ObjGet(toolCalls[1].args, "cron") \in ValidCrons
  /\ Len(dispatched) > 0 /\ Last(dispatched) = toolCalls[1]
  /\ Last(events).type = "tool_call"
  /\ ObjGet(Last(events).result, "ok") = "false"
  /\ session.scheduledJobs = <<>>

\* C2: replay fidelity: between the steps of the loop, rebuildMessages of
\* the event log written so far equals the transcript runTask holds (same
\* turns, order, roles, tool-call ids and result payloads).  Stated for the
\* runs whose transcript starts with the goal: a memory note is put in
\* front of the transcript after session_start was appended, and again
\* after the rebuild on resume.
C2_ReplayFidelity ==
  (script.mode = "run" /\ pc = "loop" /\ messages[1].content = Goal)
    => TranscriptEq(rebuildMessages(events), messages)

\* C3: after a batch of proposed actions has been processed, the log holds
\* exactly one action-result event (tool_call or tool_error) per proposed
\* action, in the order of the batch.
C3_OneResultEventPerAction ==
  (script.mode = "run" /\ pc = "loop" /\ Len(toolCalls) > 0)
    => /\ Len(ResultEventsOfBatch) = Len(toolCalls)
       /\ \A i \in 1..Len(toolCalls) :
            ResultEventsOfBatch[i].toolName = toolCalls[i].toolName

\* The signatures the harness records after the initial detector state.
HarnessKeys ==
  {SigKey(sig) : sig \in FreeSigs} \cup {SigKey(CycleSig(i)) : i \in 1..MaxPeriod}

\* C4 as stated: right after a recording that makes its signature occur
\* THRESHOLD times among the last WINDOW recorded signatures, isLooping()
\* is true, also when fewer than WINDOW signatures have been recorded; and
\* it is false when no signature occurs THRESHOLD times.
C4_AsStated ==
  (pc = "detector" /\ script.made > 0) =>
    LET win == LastN(recorded, WINDOW) IN
      /\ (Len(recorded) > 0 /\ Last(recorded) \in HarnessKeys
            /\ Occurrences(win, Last(recorded)) = THRESHOLD)
           => isLooping(recentActions)
      /\ (\A i \in 1..Len(win) : Occurrences(win, win[i]) < THRESHOLD)
           => ~isLooping(recentActions)

\* C4 amended: once WINDOW signatures have been recorded, isLooping() is
\* true as soon as the signature recorded last occurs THRESHOLD times among
\* the last WINDOW recorded signatures; while fewer than WINDOW signatures
\* have been recorded it is false; and it is false when no signature
\* occurs THRESHOLD times among the last WINDOW.
C4_LoopingOnFullWindow ==
  (pc = "detector" /\ script.made > 0) =>
    LET win == LastN(recorded, WINDOW) IN
      /\ (Len(recorded) >= WINDOW
            /\ Occurrences(win, Last(recorded)) >= THRESHOLD)
           => isLooping(recentActions)
      /\ Len(recorded) < WINDOW => ~isLooping(recentActions)
      /\ (\A i \in 1..Len(win) : Occurrences(win, win[i]) < THRESHOLD)
           => ~isLooping(recentActions)

\* C4 witness: the 5th recording of one signature into a full window.
C4_Witness ==
  /\ pc = "detector" /\ script.mode = "free" /\ script.made = THRESHOLD
  /\ Len(recorded) >= WINDOW
  /\ Last(recorded) = SigKey(Click("e1"))
  /\ Occurrences(LastN(recorded, WINDOW), Last(recorded)) = THRESHOLD
  /\ isLooping(recentActions)

\* The detector has been fed 4 signatures in cyclic order from empty.
CyclicOfFour ==
  /\ pc = "detector" /\ script.mode = "cyclic" /\ script.period = 4
  /\ script.made <= 4 * THRESHOLD
  /\ recorded = [i \in 1..script.made |-> SigKey(CycleSig(((i - 1) % 4) + 1))]

\* C5 as stated: recording 4 distinct signatures in cyclic order, 5 times
\* each, never makes isLooping() true.
C5_AsStated == CyclicOfFour => ~isLooping(recentActions)

\* C5 amended: recording 4 distinct signatures in cyclic order, isLooping()
\* is false after each of the first 19 recordings and true after the 20th.
C5_CyclicLoopsAtTwenty ==
  CyclicOfFour => (isLooping(recentActions) <=> script.made = 4 * THRESHOLD)

\* C5 witness: the 20th cyclic recording.
C5_Witness ==
  CyclicOfFour /\ script.made = 4 * THRESHOLD /\ isLooping(recentActions)

\* C6: when the detector reports looping for a proposed action, the action
\* is not dispatched, a synthetic error result for it is added, the loop
\* goes on to the next action of the batch (or, after the last action,
\* pushes the results to the transcript and returns to the loop head), and
\* the run is not ended: status stays running, and completion is not
\* signaled, so below the ceiling another iteration starts.
C6_LoopDetectedNotFatal ==
  [][/\ (pc = "act" /\ toolCalls[tcIdx].toolName # "done" /\ LoopStep
           /\ isLooping(record(recentActions, toolCalls[tcIdx].toolName,
                               toolCalls[tcIdx].args)))
        => /\ dispatched' = dispatched
           /\ events' = events
           /\ Len(toolResultContent') = Len(toolResultContent) + 1
           /\ toolResultContent'[Len(toolResultContent')] =
                [type |-> "tool-result",
                 toolCallId |-> toolCalls[tcIdx].toolCallId,
                 toolName |-> toolCalls[tcIdx].toolName,
                 result |-> LoopDetectedResult]
           /\ session' = session /\ session.status = "running"
           /\ isDone' = isDone /\ ~isDone
           /\ toolCalls' = toolCalls
           /\ IF tcIdx < Len(toolCalls)
              THEN pc' = "act" /\ tcIdx' = tcIdx + 1 /\ messages' = messages
              ELSE /\ pc' = "loop"
                   /\ messages' = Append(messages,
                                    [role |-> "tool",
                                     content |-> toolResultContent'])
                   /\ (session.iteration < maxIterations => ~LoopExits')
     /\ (script.mode = "run" /\ pc = "loop" /\ ~LoopExits /\ LoopStep
           /\ Last(messages).role = "tool"
           /\ Last(Last(messages).content).result = LoopDetectedResult)
        => /\ pc' = "compact"
           /\ session'.iteration = session.iteration + 1
           /\ session'.status = "running"]_vars

\* C6 witness: a further decision call is about to be made in the
\* iteration after one whose last action was loop-detected.
C6_Witness ==
  /\ script.mode = "run" /\ pc = "think" /\ session.iteration = 2
  /\ session.status = "running"
  /\ Last(messages).role = "tool"
  /\ Last(Last(messages).content).result = LoopDetectedResult
  /\ Len(dispatched) = WINDOW - 1

DoneIndex ==
  CHOOSE i \in 1..Len(toolCalls) :
    /\ toolCalls[i].toolName = "done"
    /\ \A j \in 1..(i - 1) : toolCalls[j].toolName # "done"

\* The batch in toolCalls has been cut short by its completion sentinel.
DoneByAction ==
  /\ script.mode = "run" /\ isDone /\ Len(toolCalls) > 0
  /\ pc \in {"loop", "returned", "scheduler"}

C8_Ceiling ==
  [][/\ (pc = "loop" /\ ~isDone /\ session.iteration >= maxIterations
           /\ LoopStep)
          => /\ pc' = "returned"
             /\ session'.status = "failed" /\ meta'.status = "failed"
             /\ session'.finalSummary =
                  <<"Task hit the maximum iteration limit (" \o
                    ToString(maxIterations) \o ") without completing.">>
             /\ meta'.finalSummary = session'.finalSummary
     /\ session'.iteration # session.iteration
          => session'.iteration <= maxIterations'
     /\ (pc = "loop" /\ isDone /\ LoopStep)
          => /\ session'.status \in {"completed", "scheduled"}
             /\ session'.status = "scheduled"
                  <=> Len(session.scheduledJobs) > 0]_vars

\* C8 witness: a run with ceiling 2 has ended at the ceiling.
C8_Witness ==
  /\ script.mode = "run" /\ pc = "returned" /\ ~isDone
  /\ maxIterations = 2 /\ session.iteration = 2
  /\ session.status = "failed"

\* C9: every step leaves the iteration counter, in memory and persisted,
\* unchanged or increases it by 1, and a resume starts from the persisted
\* value.
C9_IterationMonotone ==
  [][/\ session'.iteration \in {session.iteration, session.iteration + 1}
     /\ meta'.iteration \in {meta.iteration, meta.iteration + 1}
     /\ resumes' # resumes
          => session'.iteration = meta.iteration
             /\ meta'.iteration = meta.iteration]_vars

\* C9 witness: a resumed run has started an iteration.
C9_Witness ==
  /\ script.mode = "run" /\ resumes = 1 /\ pc = "compact"
  /\ session.iteration = 2 /\ meta.iteration = 2

\* The transcript the compaction step was given.
CompactInput ==
  IF script.resumed
  THEN RebuiltHistory(script.turns, script.style)
  ELSE History(script.turns, script.style).messages

\* C10: compacting a transcript of n > 60 turns with a successful summary
\* call yields 21 turns, a user turn carrying the summary followed by the
\* last 20 turns of the input unchanged and in order, and appends a
\* context_compacted event recording n -> 21.
C10_CompactKeepsRecent ==
  (script.mode = "compact" /\ pc = "think"
     /\ script.turns > MAX_MESSAGES_BEFORE_COMPACT
     /\ Len(summaryCalls) = 1 /\ Len(summaryCalls[1]) = 1)
    => /\ Len(messages) = 1 + COMPACT_KEEP_RECENT
       /\ messages[1].role = "user"
       /\ messages[1].content =
            "[Session history summary]\n" \o summaryCalls[1][1]
       /\ \A j \in 1..COMPACT_KEEP_RECENT :
            MsgEq(messages[1 + j],
                  CompactInput[script.turns - COMPACT_KEEP_RECENT + j])
       /\ Last(events).type = "context_compacted"
       /\ Last(events).fromMessages = script.turns
       /\ Last(events).toMessages = 1 + COMPACT_KEEP_RECENT
       /\ Len(events) =
            Len(History(script.turns, script.style).events) + 2

\* C10 witness: a transcript of 61 turns has been compacted to 21.
C10_Witness ==
  /\ script.mode = "compact" /\ pc = "think" /\ script.turns = 61
  /\ Len(summaryCalls) = 1 /\ Len(summaryCalls[1]) = 1
  /\ Len(messages) = 21
  /\ Last(events).type = "context_compacted"

\* C11: when the summarizing call of a compaction fails, the compaction
\* step does not throw: the transcript becomes the last 20 turns of the old
\* one, in order, nothing is appended to the log, the session stays
\* running, and the next step of the loop is the decision call of the same
\* iteration.
C11_CompactFailureFallsBack ==
  [][/\ (pc = "compact" /\ LoopStep
           /\ Len(messages) > MAX_MESSAGES_BEFORE_COMPACT
           /\ summaryCalls' = Append(summaryCalls, <<>>))
        => /\ Len(messages') = COMPACT_KEEP_RECENT
           /\ \A j \in 1..COMPACT_KEEP_RECENT :
                MsgEq(messages'[j],
                      messages[Len(messages) - COMPACT_KEEP_RECENT + j])
           /\ events' = events
           /\ session' = session /\ session.status = "running"
           /\ meta' = meta /\ meta.status = "running"
           /\ pc' = "think"
     /\ (pc = "think" /\ LoopStep /\ Len(summaryCalls) > 0
           /\ Last(summaryCalls) = <<>>)
        => /\ decisionCalls' = decisionCalls + 1
           /\ session'.iteration = session.iteration
           /\ Last(events').type = "llm_response"
           /\ session'.status = "running"]_vars

\* C11 witness: the decision call has been made after a compaction of 61
\* turns whose summary call failed.
C11_Witness ==
  /\ script.mode = "compact" /\ script.turns = 61
  /\ summaryCalls = <<<<>>>>
  /\ pc = "act" /\ Len(messages) = COMPACT_KEEP_RECENT + 1
  /\ Last(events).type = "llm_response"
  /\ decisionCalls = session.iteration

\* C12: when the loop ends with completion signaled, a non-empty
\* scheduledJobs list makes the status scheduled, in memory and on disk,
\* and registers its jobs with the cron timer, each once and in list order;
\* an empty list makes the status completed and registers nothing; timers
\* are registered at no other step.
C12_CompletionDisposition ==
  [][/\ (pc = "loop" /\ isDone /\ LoopStep)
        => IF Len(session.scheduledJobs) > 0
           THEN /\ session'.status = "scheduled"
                /\ meta'.status = "scheduled"
                /\ cronTimers = <<>>
                /\ cronTimers' = session.scheduledJobs
                /\ session'.scheduledJobs = session.scheduledJobs
           ELSE /\ session'.status = "completed"
                /\ meta'.status = "completed"
                /\ cronTimers' = <<>>
     /\ cronTimers' # cronTimers => (pc = "loop" /\ isDone)]_vars

\* C12 witness: a run that accepted two jobs has handed off to the
\* scheduler with both registered in list order.
C12_Witness ==
  /\ script.mode = "run" /\ pc = "scheduler"
  /\ session.status = "scheduled"
  /\ Len(cronTimers) = 2
  /\ cronTimers[1].taskDescription = "check again"
  /\ cronTimers[2].taskDescription = "check the outbox"
  /\ cronTimers = session.scheduledJobs

\* C13: whenever the persisted status is completed, failed or scheduled,
\* the session's finalSummary is set, in memory and on disk.
C13_FinalSummaryAtDisposition ==
  (script.mode = "run" /\ meta.status \in {"completed", "failed", "scheduled"})
    => /\ meta.finalSummary # <<>>
       /\ session.finalSummary # <<>>

\* C14: a finalSummary that is set is never given another value, and a
\* session whose status is running or sleeping has no finalSummary.
C14_FinalSummarySetOnce ==
  [][/\ session.finalSummary # <<>>
          => session'.finalSummary = session.finalSummary
     /\ meta.finalSummary # <<>>
          => meta'.finalSummary = meta.finalSummary
     /\ meta'.status \in {"running", "sleeping"}
          => meta'.finalSummary = <<>>]_vars

\* The set of sub-runs whose runTask has not returned.
RunningSubRuns == {i \in 1..Len(subRuns) : subRuns[i].pc # "returned"}

ScheduledEvents(log) ==
  Cardinality({i \in 1..Len(log) : log[i].type = "scheduled"})

\* C16: in a run that is not a sub-run, a schedule action with a malformed
\* cron expression gets an error result (the executor's, or the
\* loop-detected one), scheduledJobs stays as it was in memory and on disk,
\* no schedule-created event is appended, no notification is emitted, the
\* loop goes on with the batch, and no timer is ever registered for a
\* malformed expression.
C16_MalformedCronRejected ==
  [][/\ (pc = "act" /\ ~isScheduledRun /\ LoopStep
           /\ toolCalls[tcIdx].toolName = "schedule"
           /\ ObjGet(toolCalls[tcIdx].args, "cron") \notin ValidCrons)
        => LET tc == toolCalls[tcIdx]
               part == toolResultContent'[Len(toolResultContent')]
           IN  /\ Len(toolResultContent') = Len(toolResultContent) + 1
               /\ part.toolCallId = tc.toolCallId
               /\ IF dispatched' = dispatched
                  THEN part.result = LoopDetectedResult
                  ELSE part.result =
                         "{\"ok\":false,\"error\":\"Invalid cron expression: "
                         \o ObjGet(tc.args, "cron") \o "\"}"
               /\ session'.scheduledJobs = session.scheduledJobs
               /\ meta'.scheduledJobs = meta.scheduledJobs
               /\ ScheduledEvents(events') = ScheduledEvents(events)
               /\ emitted' = emitted
               /\ session'.status = session.status
               /\ isDone' = isDone
               /\ pc' = IF tcIdx < Len(toolCalls) THEN "act" ELSE "loop"
               /\ cronTimers' = cronTimers
     /\ \A k \in 1..Len(cronTimers') : cronTimers'[k].cron \in ValidCrons
     /\ \A k \in 1..Len(session'.scheduledJobs) :
          session'.scheduledJobs[k].cron \in ValidCrons]_vars

\* C16 witness: the executor has rejected a malformed cron expression in a
\* run that is not a sub-run, and the run goes on.
C16_Witness ==
  /\ script.mode = "run" /\ ~isScheduledRun /\ pc = "loop" /\ ~isDone
  /\ Len(toolCalls) = 1 /\ toolCalls[1].toolName = "schedule"
  /\ ObjGet(toolCalls[1].args, "cron") \notin ValidCrons
  /\ Len(dispatched) > 0 /\ Last(dispatched) = toolCalls[1]
  /\ Last(events).type = "tool_call"
  /\ ObjGet(Last(events).result, "error") =
       "Invalid cron expression: every day"
  /\ session.scheduledJobs = <<>> /\ session.status = "running"

\* C17: when runTask has returned, every job a schedule action of the run
\* accepted is registered with the cron timer.
C17_AcceptedJobsRegistered ==
  (script.mode = "run" /\ pc = "returned")
    => \A k \in 1..Len(session.scheduledJobs) :
         \E t \in 1..Len(cronTimers) : cronTimers[t] = session.scheduledJobs[k]

\* C18: after the SIGINT handler has run, the session of the run the caller
\* started is persisted with status failed and the interruption summary.
C18_SigintMarksCallersSession ==
  (script.mode = "run" /\ pc = "exited")
    => /\ meta.status = "failed"
       /\ meta.finalSummary = <<InterruptedSummary>>

\* C19: while sleep_until waits for its timer the status is sleeping, in
\* memory and on disk; the step that ends the wait changes neither the
\* iteration counter nor the number of decision calls nor the dispatched
\* actions, sets the status to running and delivers the result of the
\* sleep action; the wait is entered from status running; and unless the
\* process is interrupted every wait is followed by status running.
C19_SleepReturnsToRunning ==
  /\ [](pc = "sleeping" => session.status = "sleeping"
                           /\ meta.status = "sleeping")
  /\ [][/\ (pc = "sleeping" /\ LoopStep)
           => /\ session'.iteration = session.iteration
              /\ decisionCalls' = decisionCalls
              /\ dispatched' = dispatched
              /\ session'.status = "running" /\ meta'.status = "running"
              /\ Len(toolResultContent') = Len(toolResultContent) + 1
              /\ toolResultContent'[Len(toolResultContent')].toolCallId =
                   toolCalls[tcIdx].toolCallId
              /\ toolResultContent'[Len(toolResultContent')].result =
                   "{\"ok\":true,\"sleptUntil\":\"" \o WakeTime \o
                   "\",\"reason\":\"\"}"
        /\ (pc # "sleeping" /\ pc' = "sleeping")
           => /\ session.status = "running"
              /\ Last(events').type = "sleeping_until"
        /\ (meta'.status = "sleeping" \/ meta.status = "sleeping")
           => (pc = "sleeping" \/ pc' = "sleeping")]_vars
  /\ (pc = "sleeping") ~> (meta.status = "running" \/ pc = "exited")

\* C19 witness: a sleep has ended: the run is back at the loop head with
\* status running and the result of the sleep action in its transcript.
C19_Witness ==
  /\ script.mode = "run" /\ pc = "loop" /\ meta.status = "running"
  /\ Len(toolCalls) = 1 /\ toolCalls[1].toolName = "sleep_until"
  /\ Last(events).type = "tool_call"
  /\ Last(events).toolName = "sleep_until"
  /\ Last(messages).role = "tool"
  /\ \E i \in 1..Len(events) : events[i].type = "sleeping_until"

\* C20: an ask_user call is entered with a human_input_needed
\* notification; while it waits, the only step of the loop is the arrival
\* of an answer from the human, which starts no action, no iteration and
\* no decision call; and the result the call delivers is the answer the
\* human gave to the question.
C20_AskUserWaitsForAnswer ==
  [][/\ (pc \in {"asking", "askingSave"} /\ LoopStep)
        => /\ Len(humanInput') = Len(humanInput) + 1
           /\ dispatched' = dispatched
           /\ decisionCalls' = decisionCalls
           /\ session' = session
           /\ pc' \in {"askingSave", "act", "loop"}
           /\ pc' # "askingSave"
                => /\ Len(toolResultContent') = Len(toolResultContent) + 1
                   /\ toolResultContent'[Len(toolResultContent')].toolCallId
                        = toolCalls[tcIdx].toolCallId
                   /\ toolResultContent'[Len(toolResultContent')].result =
                        "{\"answer\":\"" \o
                        (IF pc = "asking" THEN humanInput'[Len(humanInput')]
                         ELSE humanInput[Len(humanInput)]) \o "\"}"
     /\ (pc # "asking" /\ pc' = "asking")
        => /\ Last(emitted').type = "human_input_needed"
           /\ humanInput' = humanInput
           /\ toolResultContent' = toolResultContent
     /\ humanInput' # humanInput => pc \in {"asking", "askingSave"}]_vars

\* C20 witness: the human has answered the question and the save prompt,
\* and the answer to the question is the result of the ask_user action.
C20_Witness ==
  /\ script.mode = "run" /\ pc = "loop"
  /\ Len(toolCalls) = 1 /\ toolCalls[1].toolName = "ask_user"
  /\ humanInput = <<"me@a.example hunter2", "mail">>
  /\ Last(toolResultContent).result =
       "{\"answer\":\"me@a.example hunter2\"}"
  /\ Last(emitted).type = "credentials_saved"

\* The action-result turn rebuildMessages produces for the last decision
\* response of the log.
RebuiltResultTurn == Last(rebuildMessages(events))

\* C21: once a batch has been processed, the rebuilt transcript ends with
\* one action-result turn in which every proposed action is matched, by
\* its tool-call id, to exactly one result, in the order of the proposals.
C21_RebuiltResultsMatchById ==
  (script.mode = "run" /\ pc = "loop" /\ Len(toolCalls) > 0)
    => /\ RebuiltResultTurn.role = "tool"
       /\ Len(RebuiltResultTurn.content) = Len(toolCalls)
       /\ \A i \in 1..Len(toolCalls) :
            RebuiltResultTurn.content[i].toolCallId = toolCalls[i].toolCallId

\* C22: when a write of the session store throws during a run, runTask
\* rejects and the session is then marked failed with a finalSummary that
\* describes the error.
C22_StoreFailureFailsRun ==
  [][storeFaults' > storeFaults
     => /\ pc' = "threw"
        /\ session'.status = "failed"
        /\ session'.finalSummary = <<"Error: " \o StoreError>>]_vars

\* A step in which the decision call returned a response with no proposed
\* action.
EmptyResponseStep ==
  /\ pc = "think" /\ pc' = "loop"
  /\ decisionCalls' = decisionCalls + 1
  /\ toolCalls' = <<>>

\* What a response with no proposed action and no natural stop leaves as
\* it was: the run is not completed, and memory, scheduledJobs and status
\* are unchanged in memory and on disk; the next iteration starts unless
\* the ceiling is reached.
EmptyResponseContinues ==
  /\ ~isDone' /\ doneSummary' = doneSummary
  /\ session' = session /\ meta' = meta
  /\ cronTimers' = cronTimers
  /\ session'.status = "running"
  /\ LoopExits' <=> session'.iteration >= maxIterations'

\* C23 as stated: a response with no proposed action and a natural stop
\* ends the loop as a completion whose summary is the text of the
\* response; without a natural stop the loop goes on to the next iteration
\* and nothing of memory, scheduledJobs and status changes.
C23_AsStated ==
  [][EmptyResponseStep
     => IF finishReason' = "stop"
        THEN /\ isDone' /\ LoopExits'
             /\ doneSummary' = Last(events').text
        ELSE EmptyResponseContinues]_vars

\* C23 amended: the summary of the completion is the text of the response
\* when that text is not empty, and "Task complete." when it is empty.
C23_EmptyResponse ==
  [][EmptyResponseStep
     => IF finishReason' = "stop"
        THEN /\ isDone' /\ LoopExits'
             /\ doneSummary' = (IF Last(events').text # ""
                                THEN Last(events').text
                                ELSE "Task complete.")
        ELSE EmptyResponseContinues]_vars

\* C23 witness: a response with no proposed action, no text and a natural
\* stop has ended the loop with the summary "Task complete.".
C23_Witness ==
  /\ script.mode = "run" /\ pc = "loop"
  /\ finishReason = "stop" /\ toolCalls = <<>>
  /\ Last(events).type = "llm_response" /\ Last(events).text = ""
  /\ isDone /\ doneSummary = "Task complete."

\* The result given to the oracle for an action whose executor call threw
\* with the given message.
ErrorResult(tc, msg) ==
  ToolResult(tc, JSONstringify(<<LitE("ok", "false"), StrE("error", msg)>>))

\* C24: when the executor throws on an action, one tool_error event for the
\* action is appended to the log, the error result is added to the results
\* of the batch under the action's id, the rest of the batch is still
\* processed (the results go to the transcript after the last action), and
\* the run goes on with status running.
C24_ExecutorFailureNotFatal ==
  [][(toolErrors' = toolErrors + 1 /\ LoopStep)
     => LET tc == toolCalls[tcIdx] IN
        /\ pc = "act"
        /\ Len(events') = Len(events) + 1
        /\ Last(events').type = "tool_error"
        /\ Last(events').toolName = tc.toolName
        /\ Last(events').args = tc.args
        /\ toolResultContent' =
             Append(toolResultContent, ErrorResult(tc, Last(events').error))
        /\ IF tcIdx < Len(toolCalls)
           THEN pc' = "act" /\ tcIdx' = tcIdx + 1 /\ messages' = messages
           ELSE /\ pc' = "loop"
                /\ messages' = Append(messages,
                                      [role |-> "tool",
                                       content |-> toolResultContent'])
        /\ session' = session /\ session'.status = "running"
        /\ meta' = meta
        /\ isDone' = isDone /\ toolCalls' = toolCalls]_vars

\* C24 witness: the first action of a batch failed in the executor, a later
\* action of the same batch was dispatched and succeeded, and the run is
\* still running.
C24_Witness ==
  /\ script.mode = "run" /\ toolErrors = 1
  /\ Len(toolCalls) > 1
  /\ Len(ResultEventsOfBatch) >= 2
  /\ ResultEventsOfBatch[1].type = "tool_error"
  /\ Last(ResultEventsOfBatch).type = "tool_call"
  /\ Last(dispatched).toolCallId = toolCalls[Len(ResultEventsOfBatch)].toolCallId
  /\ session.status = "running"

\* C25: within an iteration the proposed actions are dispatched one at a
\* time in the order of the response: an action is dispatched only when
\* every earlier action of the batch has its result, the results are in the
\* order of the batch, and a decision call is made only when no action of
\* the previous batch is pending (each action the loop took up has its
\* result).
C25_SequentialDispatch ==
  [][LoopStep
     => /\ dispatched' # dispatched
             => /\ pc = "act"
                /\ dispatched' = Append(dispatched, toolCalls[tcIdx])
                /\ Len(toolResultContent) = tcIdx - 1
        /\ decisionCalls' # decisionCalls
             => /\ pc = "think"
                /\ Len(toolResultContent) = tcIdx
        /\ (toolCalls' = toolCalls /\ pc' # "loop" /\ pc # "returned"
              /\ pc # "threw")
             => tcIdx' \in {tcIdx, tcIdx + 1}
        /\ Len(toolResultContent') <= Len(toolCalls')
        /\ \A j \in 1..Len(toolResultContent') :
             toolResultContent'[j].toolCallId = toolCalls'[j].toolCallId]_vars

\* C25 witness: the first response proposed a batch of WINDOW clicks, the
\* clicks before the loop detector stepped in were dispatched in the order
\* of the batch, and the second decision call has been made after it.
C25_Witness ==
  /\ script.mode = "run" /\ decisionCalls = 2
  /\ Len(dispatched) >= WINDOW - 1
  /\ \A i \in 1..(WINDOW - 1) : dispatched[i].toolCallId = ToolCallId(1, i)

\* The memory map obtained by applying the memory_update events of a log
\* in order, and the status of its session_end event ("running" when the
\* log has none).
RECURSIVE MemoryOfLog(_)
MemoryOfLog(log) ==
  IF Len(log) = 0 THEN <<>>
  ELSE LET e == log[Len(log)]
           before == MemoryOfLog(SubSeq(log, 1, Len(log) - 1))
       IN  IF e.type = "memory_update"
           THEN Merge(before, [k \in {e.key} |-> e.value])
           ELSE before
StatusOfLog(log) ==
  LET ends == SelectSeq(log, LAMBDA e : e.type = "session_end")
  IN  IF Len(ends) = 0 THEN "running" ELSE ends[Len(ends)].status

\* C26: a fresh run whose oracle gives remember(k1, v1), remember(k2, v2)
\* and done("done") in one, two or three decision responses returns with
\* iteration equal to the number of responses (at most 3), memory exactly
\* {k1: v1, k2: v2}, status completed and finalSummary "done", in memory
\* and on disk, and the memory_update events and the session_end event of
\* the log give the same memory and status.
C26_PlannedRunEndState ==
  pc = "returned"
    => /\ session.iteration = Len(script.plan)
       /\ decisionCalls = Len(script.plan)
       /\ session.iteration <= 3
       /\ session.memory = [k \in {"k1", "k2"} |->
                              IF k = "k1" THEN "v1" ELSE "v2"]
       /\ session.status = "completed"
       /\ session.finalSummary = <<"done">>
       /\ meta = session
       /\ MemoryOfLog(events) = session.memory
       /\ StatusOfLog(events) = session.status

\* C26 witness: the run whose plan has three responses has returned after
\* its third iteration with both keys stored.
C26_Witness ==
  /\ script.mode = "plan" /\ Len(script.plan) = 3
  /\ pc = "returned" /\ session.iteration = 3
  /\ DOMAIN session.memory = {"k1", "k2"}
  /\ Last(events).type = "session_end"

\* C27: the event log is append-only and ordered by append sequence: an
\* append leaves the text written before it and the events loaded from it
\* as they were, and loadEvents returns exactly the events appended, in
\* the order of the appends, whatever their timestamps.
C27_LogAppendOnly ==
  [][/\ loadEvents(storeFile') = events'
     /\ Len(storeFile') >= Len(storeFile)
     /\ SubSeq(storeFile', 1, Len(storeFile)) = storeFile
     /\ SubSeq(loadEvents(storeFile'), 1, Len(loadEvents(storeFile)))
          = loadEvents(storeFile)]_vars

\* C27 witness: two events were appended with the later timestamp first,
\* and loadEvents returns them in the order of the appends.
C27_Witness ==
  /\ script.mode = "log" /\ Len(events) >= 2
  /\ events[1].ts > events[2].ts
  /\ loadEvents(storeFile)[1] = events[1]
  /\ loadEvents(storeFile)[2] = events[2]

\* C28: loading a session whose record is missing or corrupt gives null
\* and raises nothing, and runTask called with the id of such a session
\* fails with 'not found' before a session is created or saved, an event
\* is appended, a notification is sent or an iteration is started; an
\* intact record is loaded as the session it holds.
C28_MissingOrCorruptNotFound ==
  [][resumes' = resumes + 1
     => IF Len(storeFile) = 0 \/ storeFile[1].kind # "json"
        THEN /\ loadSession(storeFile) = <<>>
             /\ pc' = "notFound"
             /\ UNCHANGED <<session, meta, storeFile, events, messages,
                            emitted, decisionCalls>>
        ELSE /\ loadSession(storeFile) = <<storeFile[1].value>>
             /\ pc' = "loop"
             /\ session' = [storeFile[1].value EXCEPT !.status = "running"]
             /\ events' = events]_vars

\* C28 witness: runTask was called with the id of a session whose record
\* was cut short, and has failed with 'not found'.
C28_Witness ==
  /\ script.mode = "load" /\ pc = "notFound"
  /\ Len(storeFile) = 1 /\ storeFile[1].kind = "cut"
  /\ resumes = 1

\* C29: the loop-detected error takes the place of the dispatch only for an
\* action that is not exempt and whose own signature occurs at least
\* THRESHOLD times in the window after it was recorded; an exempt action,
\* and an action whose own signature occurs fewer times, is dispatched,
\* also when another signature has reached the threshold.
C29_OnlyTheLoopingActionIsStopped ==
  [][(pc = "act" /\ LoopStep /\ toolCalls[tcIdx].toolName # "done")
     => LET tc == toolCalls[tcIdx]
            own == Occurrences(recentActions',
                               LoopKey(tc.toolName, tc.args))
            exempt == tc.toolName \in LOOP_EXEMPT_TOOLS
            substituted ==
              /\ dispatched' = dispatched
              /\ Len(toolResultContent') = Len(toolResultContent) + 1
              /\ Last(toolResultContent').result = LoopDetectedResult
        IN  /\ substituted => (~exempt /\ own >= THRESHOLD)
            /\ (exempt \/ own < THRESHOLD)
                 => dispatched' = Append(dispatched, tc)]_vars

\* C30: the transcript given to a decision call has at most
\* MAX_MESSAGES_BEFORE_COMPACT turns, whatever the length of the transcript
\* at the head of the iteration, also in a resumed run whose rebuilt
\* transcript is longer and when the summarizing call fails.
C30_BoundedContext ==
  [][decisionCalls' = decisionCalls + 1
     => /\ pc = "think"
        /\ Len(messages) <= MAX_MESSAGES_BEFORE_COMPACT
        /\ Len(messages') <= MAX_MESSAGES_BEFORE_COMPACT + 1]_vars

\* C30 witness: a resumed run whose rebuilt transcript had more than 60
\* turns has made its decision call after a compaction whose summarizing
\* call failed.
C30_Witness ==
  /\ script.mode = "compact" /\ script.resumed
  /\ script.turns > MAX_MESSAGES_BEFORE_COMPACT
  /\ summaryCalls = <<<<>>>>
  /\ decisionCalls = Iterations(script.turns, script.style) + 1
  /\ Last(events).type = "llm_response"
  /\ Len(messages) <= COMPACT_KEEP_RECENT + 1

\* The length the transcript of the history had at the compaction check of
\* its last iteration; the loop can have built the history only if that
\* length was not above the ceiling.
LengthBeforeLastIteration ==
  LET t == ToolIterations(script.turns, script.style)
      l == LeadIterations(script.turns, script.style)
      k == Iterations(script.turns, script.style)
  IN  IF k = 0 THEN script.turns
      ELSE IF t > 0 /\ k = t + l THEN script.turns - 2
      ELSE script.turns - 1

\* C31: after a compaction, with or without summary, every action-result
\* turn of the transcript comes right after an assistant turn: the kept
\* suffix does not start with an action-result turn.
C31_CompactKeepsPairs ==
  [][(script.mode = "compact" /\ pc = "compact"
        /\ Len(messages) > MAX_MESSAGES_BEFORE_COMPACT
        /\ LengthBeforeLastIteration <= MAX_MESSAGES_BEFORE_COMPACT)
     => \A j \in 1..Len(messages') :
          messages'[j].role = "tool"
            => (j > 1 /\ messages'[j - 1].role = "assistant")]_vars

\* C32: no event of the log holds an answer the human gave: every event
\* appended for an ask_user action carries the redaction placeholder in
\* place of the answer.
C32_AnswerNotLogged ==
  \A i \in 1..Len(events) :
    (events[i].type = "tool_call" /\ events[i].toolName = "ask_user")
      => /\ ObjGet(events[i].result, "answer") = "[redacted from logs]"
         /\ \A a \in 1..Len(humanInput) :
              ObjGet(events[i].result, "answer") # humanInput[a]

\* C33: a scheduled sub-run never propagates a schedule: while the run
\* started with the scheduled-sub-run flag, its scheduledJobs list is empty
\* in memory and on disk, its status is never scheduled, it registers no
\* cron timer and it never reaches the scheduler; once it has ended its
\* status is completed or failed.  In every state the number of registered
\* cron timers is at most the number of jobs of the session.
C33_SubRunNeverSchedules ==
  /\ isScheduledRun
       => /\ session.scheduledJobs = <<>>
          /\ meta.scheduledJobs = <<>>
          /\ session.status # "scheduled"
          /\ meta.status # "scheduled"
          /\ cronTimers = <<>>
          /\ pc # "scheduler"
          /\ \A i \in 1..Len(events) : events[i].type # "scheduled"
          /\ pc \in {"returned", "threw", "exited"}
               => meta.status \in {"completed", "failed"}
  /\ Len(cronTimers) <= Len(session.scheduledJobs)

\* C33 witness: a sub-run that dispatched a schedule action with a valid
\* cron expression has returned from runTask as completed.
C33_Witness ==
  /\ script.mode = "run" /\ isScheduledRun /\ pc = "returned"
  /\ meta.status = "completed"
  /\ \E i \in 1..Len(dispatched) :
       /\ dispatched[i].toolName = "schedule"
       /\ ObjGet(dispatched[i].args, "cron") \in ValidCrons
  /\ session.scheduledJobs = <<>> /\ cronTimers = <<>>

\* C34: termination: when every awaited call returns, runTask starts at
\* most (ceiling - initial iteration) iterations, none when the session
\* already stands at or above the ceiling, and, unless the session has
\* collected scheduled jobs, eventually returns with the persisted status
\* completed or failed; also when the oracle keeps returning empty
\* responses without a natural stop or keeps repeating a loop-detected
\* action.
C34_RunReturns ==
  /\ [](script.mode = "returning"
          => session.iteration - script.start
               <= Max(0, maxIterations - script.start))
  /\ (script.mode = "returning")
       => \/ <>(/\ pc = "returned"
                /\ meta.status \in {"completed", "failed"}
                /\ session.status = meta.status)
          \/ <>(Len(session.scheduledJobs) > 0)

\* C34 witness: a run resumed at iteration 1 under a ceiling of 2 got an
\* empty response without a natural stop in its only iteration and has
\* returned as failed.
C34_Witness ==
  /\ script.mode = "returning" /\ script.start = 1 /\ maxIterations = 2
  /\ pc = "returned" /\ meta.status = "failed"
  /\ session.iteration = 2 /\ decisionCalls = 1
  /\ finishReason = "length" /\ toolCalls = <<>>
  /\ session.scheduledJobs = <<>>

\* C35: a persisted status completed is final for this process: no step
\* other than an explicit resume of that session changes the persisted
\* status or finalSummary of a session that is persisted as completed; in
\* particular a SIGINT that arrives after a scheduled sub-run has completed
\* leaves that sub-run's status and finalSummary as they are.
C35_CompletedIsFinal ==
  [][/\ (meta.status = "completed" /\ resumes' = resumes)
          => /\ meta'.status = "completed"
             /\ meta'.finalSummary = meta.finalSummary
     /\ \A i \in 1..Len(subRuns) :
          subRuns[i].meta.status = "completed"
            => /\ subRuns'[i].meta.status = "completed"
               /\ subRuns'[i].meta.finalSummary = subRuns[i].meta.finalSummary]_vars

\* C36: when a run has ended (runTask returned, threw, or handed the
\* session to the scheduler) and the persisted status is completed, failed
\* or scheduled, the last event of the log is a session_end event whose
\* status is the persisted status and whose summary is the persisted
\* finalSummary.
C36_LogEndsWithOutcome ==
  (/\ pc \in {"returned", "threw", "scheduler"}
   /\ meta.status \in {"completed", "failed", "scheduled"})
    => /\ Last(events).type = "session_end"
       /\ Last(events).status = meta.status
       /\ meta.finalSummary = <<Last(events).summary>>

====
